---- MODULE Spec2Model ----
(***************************************************************************)
(* A model of the diff-to-structured-data parser and the commit/report    *)
(* assembly pipeline of logic_ai_tools.git (commit_msg.py and              *)
(* progress_report.py): the retry/timeout supervisor, the parallel commit  *)
(* analysis and its grouping, the line-oriented response parsers and the   *)
(* structured-diff builder.                                                *)
(*                                                                         *)
(* Each part of the pipeline has a specification of its own (SpecRetry,    *)
(* SpecReport, SpecParse, SpecDiff); the variables of the other parts are  *)
(* held at their idle values.                                              *)
(***************************************************************************)
EXTENDS Integers, Sequences, FiniteSets, TLC

(***************************************************************************)
(* Bounds of the model.                                                    *)
(***************************************************************************)
MaxRetries == 3
MaxDelay == 2

(***************************************************************************)
(* Small helpers.                                                          *)
(***************************************************************************)
Range(s) == {s[i] : i \in DOMAIN s}

RECURSIVE SeqSum(_)
SeqSum(s) == IF s = <<>> THEN 0 ELSE Head(s) + SeqSum(Tail(s))

(***************************************************************************)
(* Part 1.  retry_ai_request (progress_report.py 209-264).                 *)
(*                                                                         *)
(* An invocation runs in the thread that calls it: the main thread (the    *)
(* final report, get_ai_output) or a worker thread of the commit-analysis  *)
(* pool (parse_commit); in the pool several invocations run at once.       *)
(* sys.platform is fixed for a run.  Every attempt submits the wrapped     *)
(* call to a one-off ThreadPoolExecutor(max_workers=1); the call then      *)
(* returns, raises, or is still running when future.result(timeout) gives  *)
(* up.  Leaving the `with` block calls executor.shutdown(wait=True), which *)
(* joins the thread that runs the call.                                    *)
(***************************************************************************)
\* The retry/timeout supervisor (Part 1).
VARIABLES
    platform,        \* sys.platform: "win32" or "posix"
    thread,          \* thread[i]: "main", "worker", or "off" (no invocation)
    max_retries,     \* args.max_retries
    initial_delay,   \* initial_delay of the call site
    pc,              \* pc[i]: where invocation i is
    attempt,         \* attempt[i]: the loop variable (attempts finished so far)
    calls,           \* calls[i]: how often func was submitted
    sleeps,          \* sleeps[i]: the arguments of time.sleep, in order
    log,             \* log[i]: how each attempt ended
    last_exception,  \* last_exception[i]
    callState,       \* callState[i]: the wrapped call of the current attempt
    alarm,           \* TRUE while signal.alarm(timeout + 5) is pending
    leaked,          \* leaked[i]: calls abandoned while still running
    outcome          \* outcome[i]: what the invocation gave its caller

\* The commit analysis and the grouping (Part 2).
VARIABLES
    new_commits,      \* len(new_commits)
    empty_message,    \* the commits whose commit.message is the empty string
    batch_size_arg,   \* args.batch_size
    workers_arg,      \* args.workers
    batch_idx,        \* the loop variable of line 369
    task,             \* task[p]: "new", "queued", "running", "finished", "consumed"
    parsed_data,      \* parsed_data[p]: what parse_commit returned for commit p
    parsed_commits,   \* the list of line 360
    grouped_commits,  \* the dict of line 431, as a sequence in insertion order
    rpc               \* "dispatch", "collect", "group", "done", "aborted"

\* The response parsers (Part 3).
VARIABLES
    parseInput,       \* the text handed to a parser, tagged with the parser
    parseOutput       \* what the parser returned

\* The structured-diff builder (Part 4).
VARIABLES
    diff,             \* diff_output: its length and its file-boundary lines
    diff_files,       \* the file-name string, as the list of its lines
    failing,          \* the files whose per-file request fails; 0: the summary request
    dpc,              \* where parse_diff_to_structured is
    chunk_idx,        \* the chunk in progress (from 1)
    ftask,            \* ftask[f]: "new", "queued", "finished", "consumed"
    file_results,     \* the list of line 154
    aiCalls,          \* number of AIClient.get_response calls so far
    structured        \* the StructuredDiff returned

\* The commit workflow (Part 5).
VARIABLES
    cpc,                   \* where create_git_commit_msg / commit_msg is
    user_msg,              \* the text typed at "Enter Your Commit Message: "
    staged_files,          \* get_staged_files(): the names in the index
    unstaged_files,        \* get_unstaged_files()
    large,                 \* len(diff_output) > 10000
    name_only,             \* diff_files of line 623: the file-name string, by lines
    structured_diff,       \* structured_diff of line 633
    future,                \* future[t]: state and result of title_future, summary_future
    message,               \* the message dict of line 636
    final_commit_message,  \* the final message, as the list of its lines
    trace,                 \* prompts answered, pools opened and closed, git invoked
    shown,                 \* the status lines printed about the fallback and git
    exit_status            \* "running", "exit 0", "returned"

retryVars == <<thread, max_retries, initial_delay, pc, attempt, calls,
               sleeps, log, last_exception, callState, alarm, leaked, outcome>>
reportVars == <<new_commits, empty_message, batch_size_arg, workers_arg, batch_idx, task,
                parsed_data, parsed_commits, grouped_commits, rpc>>
parseVars == <<parseInput, parseOutput>>
diffVars == <<diff, diff_files, failing, dpc, chunk_idx, ftask, file_results,
              aiCalls, structured>>

\* The AI client (Part 6).
VARIABLES
    apc,               \* where get_response is
    self_model,        \* self.model
    openai_api_key,    \* TRUE when OPENAI_API_KEY is set
    retry,             \* what was typed at the fallback prompt
    console,           \* the lines get_response printed
    provider_calls,    \* the requests sent to the providers, in order
    primary_error,     \* the exception e of line 89
    client_result           \* what get_response gave its caller

commitVars == <<cpc, user_msg, staged_files, unstaged_files, large, name_only,
                structured_diff, future, message, final_commit_message, trace,
                shown, exit_status>>

clientVars == <<apc, self_model, openai_api_key, retry, console, provider_calls,
                primary_error, client_result>>

vars == <<platform, retryVars, reportVars, parseVars, diffVars, commitVars, clientVars>>

\* What an action of one part leaves alone.
notRetry == <<reportVars, parseVars, diffVars, commitVars, clientVars>>
notReport == <<platform, retryVars, parseVars, diffVars, commitVars, clientVars>>
notParse == <<platform, retryVars, reportVars, diffVars, commitVars, clientVars>>
notDiff == <<platform, retryVars, reportVars, parseVars, commitVars, clientVars>>
notCommit == <<platform, retryVars, reportVars, parseVars, diffVars, clientVars>>
notClient == <<platform, retryVars, reportVars, parseVars, diffVars, commitVars>>


Invocations == {1, 2}
Platforms == {"win32", "posix"}

NoError == [kind |-> "None", attempt |-> 0]
NoOutcome == [type |-> "none", value |-> 0, error |-> NoError]

\* The threads of one run: the main thread alone (get_ai_output, line 491), or
\* the workers of the commit-analysis pool (parse_commit, line 298).
ThreadSetups ==
    { [i \in Invocations |-> IF i = 1 THEN "main" ELSE "off"],
      [i \in Invocations |-> "worker"] }

\* line 234-235: signal.signal works only in the main thread of the main
\* interpreter; anywhere else it raises ValueError.  On win32 it is skipped.
SignalSetupFails(plat, thr) == plat # "win32" /\ thr # "main"

\* A supervisor without backoff: every retry waits the initial delay.
SleepTimeFixed(delay, att) == delay

\* line 259: sleep_time = delay * (2 ** attempt)
SleepTime(delay, att) == delay * (2 ^ att)

RetryInit ==
    /\ platform \in Platforms
    /\ thread \in ThreadSetups
    /\ max_retries \in 1..MaxRetries
    /\ initial_delay \in 1..MaxDelay
    /\ pc = [i \in Invocations |-> IF thread[i] = "off" THEN "off" ELSE "start"]
    /\ attempt = [i \in Invocations |-> 0]
    /\ calls = [i \in Invocations |-> 0]
    /\ sleeps = [i \in Invocations |-> <<>>]
    /\ log = [i \in Invocations |-> <<>>]
    /\ last_exception = [i \in Invocations |-> NoError]
    /\ callState = [i \in Invocations |-> "none"]
    /\ alarm = FALSE
    /\ leaked = [i \in Invocations |-> 0]
    /\ outcome = [i \in Invocations |-> NoOutcome]

\* lines 256-264: the except clause of one attempt, and the raise after the loop.
Fail(i, kind) ==
    LET e == [kind |-> kind, attempt |-> attempt[i] + 1] IN
    /\ last_exception' = [last_exception EXCEPT ![i] = e]
    /\ log' = [log EXCEPT ![i] = Append(@, kind)]
    /\ attempt' = [attempt EXCEPT ![i] = @ + 1]
    /\ IF attempt[i] < max_retries - 1
         THEN /\ sleeps' = [sleeps EXCEPT ![i] =
                               Append(@, SleepTime(initial_delay, attempt[i]))]
              /\ pc' = [pc EXCEPT ![i] = "start"]
              /\ outcome' = outcome
         ELSE /\ sleeps' = sleeps
              /\ pc' = [pc EXCEPT ![i] = "raised"]
              /\ outcome' = [outcome EXCEPT ![i] =
                               [type |-> "raise", value |-> 0, error |-> e]]

\* lines 231-241: the signal set-up and the submission of the call.
AttemptBegin(i) ==
    /\ pc[i] = "start"
    /\ IF SignalSetupFails(platform, thread[i])
         THEN /\ Fail(i, "ValueError")
              /\ UNCHANGED <<calls, callState, alarm, leaked>>
         ELSE /\ alarm' = (platform # "win32")
              /\ calls' = [calls EXCEPT ![i] = @ + 1]
              /\ callState' = [callState EXCEPT ![i] = "running"]
              /\ pc' = [pc EXCEPT ![i] = "wait"]
              /\ UNCHANGED <<attempt, sleeps, log, last_exception, leaked, outcome>>
    /\ UNCHANGED <<platform, thread, max_retries, initial_delay>>
    /\ UNCHANGED notRetry

\* The wrapped call returns (in time, or while the supervisor waits for it).
CallReturns(i) ==
    /\ callState[i] = "running"
    /\ callState' = [callState EXCEPT ![i] = "returned"]
    /\ UNCHANGED <<platform, thread, max_retries, initial_delay, pc, attempt, calls,
                   sleeps, log, last_exception, alarm, leaked, outcome>>
    /\ UNCHANGED notRetry

\* The wrapped call raises.
CallRaises(i) ==
    /\ callState[i] = "running"
    /\ callState' = [callState EXCEPT ![i] = "raised"]
    /\ UNCHANGED <<platform, thread, max_retries, initial_delay, pc, attempt, calls,
                   sleeps, log, last_exception, alarm, leaked, outcome>>
    /\ UNCHANGED notRetry

\* lines 243-247: future.result returns; the alarm is reset and the result returned.
ResultOk(i) ==
    /\ pc[i] = "wait"
    /\ callState[i] = "returned"
    /\ pc' = [pc EXCEPT ![i] = "returned"]
    /\ log' = [log EXCEPT ![i] = Append(@, "ok")]
    /\ outcome' = [outcome EXCEPT ![i] =
                     [type |-> "return", value |-> calls[i], error |-> NoError]]
    /\ alarm' = FALSE
    /\ callState' = [callState EXCEPT ![i] = "none"]
    /\ UNCHANGED <<platform, thread, max_retries, initial_delay, attempt, calls,
                   sleeps, last_exception, leaked>>
    /\ UNCHANGED notRetry

\* line 243: future.result re-raises the exception of the call.
ResultRaised(i) ==
    /\ pc[i] = "wait"
    /\ callState[i] = "raised"
    /\ Fail(i, "Exception")
    /\ alarm' = FALSE
    /\ callState' = [callState EXCEPT ![i] = "none"]
    /\ UNCHANGED <<platform, thread, max_retries, initial_delay, calls, leaked>>
    /\ UNCHANGED notRetry

\* lines 248-249: future.result(timeout) gives up; TimeoutError leaves the `with`
\* block, whose exit is executor.shutdown(wait=True).
TimeoutElapses(i) ==
    /\ pc[i] = "wait"
    /\ callState[i] = "running"
    /\ pc' = [pc EXCEPT ![i] = "executor_exit"]
    /\ UNCHANGED <<platform, thread, max_retries, initial_delay, attempt, calls,
                   sleeps, log, last_exception, callState, alarm, leaked, outcome>>
    /\ UNCHANGED notRetry

\* line 240 (exit of the with block), 250-261: the call has ended, shutdown
\* returns and the TimeoutError reaches the except clause.
ShutdownDone(i) ==
    /\ pc[i] = "executor_exit"
    /\ callState[i] # "running"
    /\ Fail(i, "TimeoutError")
    /\ alarm' = FALSE
    /\ callState' = [callState EXCEPT ![i] = "none"]
    /\ UNCHANGED <<platform, thread, max_retries, initial_delay, calls, leaked>>
    /\ UNCHANGED notRetry

\* lines 228-229, 236: SIGALRM arrives in the main thread while it waits in
\* shutdown; timeout_handler raises TimeoutError there and the call is left
\* running.
AlarmFires(i) ==
    /\ pc[i] = "executor_exit"
    /\ callState[i] = "running"
    /\ alarm
    /\ thread[i] = "main"
    /\ Fail(i, "TimeoutError")
    /\ alarm' = FALSE
    /\ callState' = [callState EXCEPT ![i] = "none"]
    /\ leaked' = [leaked EXCEPT ![i] = @ + 1]
    /\ UNCHANGED <<platform, thread, max_retries, initial_delay, calls>>
    /\ UNCHANGED notRetry

RetryNext ==
    \E i \in Invocations :
        \/ AttemptBegin(i)
        \/ CallReturns(i)
        \/ CallRaises(i)
        \/ ResultOk(i)
        \/ ResultRaised(i)
        \/ TimeoutElapses(i)
        \/ ShutdownDone(i)
        \/ AlarmFires(i)

\* The retry variables while another part of the pipeline is examined.
RetryIdle ==
    /\ thread = [i \in Invocations |-> "off"]
    /\ max_retries = 1
    /\ initial_delay = 1
    /\ pc = [i \in Invocations |-> "off"]
    /\ attempt = [i \in Invocations |-> 0]
    /\ calls = [i \in Invocations |-> 0]
    /\ sleeps = [i \in Invocations |-> <<>>]
    /\ log = [i \in Invocations |-> <<>>]
    /\ last_exception = [i \in Invocations |-> NoError]
    /\ callState = [i \in Invocations |-> "none"]
    /\ alarm = FALSE
    /\ leaked = [i \in Invocations |-> 0]
    /\ outcome = [i \in Invocations |-> NoOutcome]

(***************************************************************************)
(* Part 2.  The parallel commit analysis and the grouping of               *)
(* create_git_progress_report (progress_report.py 348-442).                *)
(*                                                                         *)
(* new_commits is sorted oldest first (line 186); a commit is named by its *)
(* position 1..new_commits in that order.  Every batch is submitted to a   *)
(* ThreadPoolExecutor whose workers take the tasks in submission order;    *)
(* as_completed hands the finished futures to the main thread, which       *)
(* appends each result to parsed_commits.                                  *)
(***************************************************************************)
MaxCommits == 3
MaxBatchSize == 2
MaxWorkers == 2

Commits == 1..MaxCommits

\* What the model's reply may name as Type and Scope (free text).
ReplyTypes == {"fix", "fix/ui"}
ReplyScopes == {"x", "ui/x"}

NoData == [summary |-> "none", type |-> "", scope |-> "", impact |-> ""]

\* lines 308-314: the entry parse_commit returns when the request failed.
ErrorEntry ==
    [summary |-> "Error analyzing commit", type |-> "unknown", scope |-> "unknown",
     impact |-> "LOW"]

\* lines 320-346: the entries parse_commit can build from a reply.
ParsedEntries ==
    { [summary |-> "parsed", type |-> t, scope |-> s, impact |-> "LOW"] :
        t \in ReplyTypes, s \in ReplyScopes }

\* lines 297-346: parse_commit runs in a pool worker; its request goes through
\* retry_ai_request, which cannot install its signal handler there.
ParseCommitResults ==
    IF SignalSetupFails(platform, "worker")
      THEN {ErrorEntry}
      ELSE ParsedEntries \cup {ErrorEntry}

\* lines 310, 413: commit.message.splitlines()[0] raises IndexError when the
\* message is the empty string (splitlines() is then []).
FirstLineRaises(p) == p \in empty_message

\* The future of a parse_commit that raised.
Raised == [summary |-> "IndexError", type |-> "", scope |-> "", impact |-> ""]

\* lines 412-418: the entry the collecting loop builds for a future that raised.
FallbackData ==
    [summary |-> "Error processing commit", type |-> "unknown", scope |-> "unknown",
     impact |-> "LOW"]

\* lines 297-346: what parse_commit hands to its future for commit p when the
\* request ended as r.
ParseCommitOutcome(p, r) == IF r = ErrorEntry /\ FirstLineRaises(p) THEN Raised ELSE r

\* line 366
BatchSize == IF batch_size_arg > 0 THEN batch_size_arg ELSE new_commits
\* line 367
NumBatches == (new_commits + BatchSize - 1) \div BatchSize
\* line 357
PoolWidth == IF workers_arg < new_commits THEN workers_arg ELSE new_commits
\* lines 370-372: the commits of batch b (b counts from 0)
Min(a, b) == IF a < b THEN a ELSE b
BatchOfWhole(b) == 1..new_commits

BatchOf(b) == (b * BatchSize + 1)..Min(b * BatchSize + BatchSize, new_commits)

\* line 433
GroupKey(c) == c.type \o "/" \o c.scope

WithIndex(c, i) ==
    [commit |-> c.commit, summary |-> c.summary, type |-> c.type, scope |-> c.scope,
     impact |-> c.impact, original_index |-> i]

\* lines 432-438, with a group overwritten instead of appended to.
RECURSIVE GroupLoopOverwrite(_, _, _)
GroupLoopOverwrite(parsed, i, groups) ==
    IF i > Len(parsed) THEN groups
    ELSE LET c == WithIndex(parsed[i], i - 1)
             k == GroupKey(parsed[i])
             at == {g \in DOMAIN groups : groups[g].key = k}
         IN  IF at = {}
               THEN GroupLoopOverwrite(parsed, i + 1,
                        Append(groups, [key |-> k, commits |-> <<c>>]))
               ELSE GroupLoopOverwrite(parsed, i + 1,
                        [groups EXCEPT ![CHOOSE g \in at : TRUE].commits = <<c>>])

\* lines 432-438: the grouping loop; groups keeps the dict's insertion order.
RECURSIVE GroupLoop(_, _, _)
GroupLoop(parsed, i, groups) ==
    IF i > Len(parsed) THEN groups
    ELSE LET c == WithIndex(parsed[i], i - 1)
             k == GroupKey(parsed[i])
             at == {g \in DOMAIN groups : groups[g].key = k}
         IN  IF at = {}
               THEN GroupLoop(parsed, i + 1,
                        Append(groups, [key |-> k, commits |-> <<c>>]))
               ELSE GroupLoop(parsed, i + 1,
                        [groups EXCEPT ![CHOOSE g \in at : TRUE].commits = Append(@, c)])

\* list.sort(key=original_index): a stable insertion of c into a sorted list.
RECURSIVE InsertByIndex(_, _)
InsertByIndex(c, s) ==
    IF s = <<>> THEN <<c>>
    ELSE IF c.original_index < Head(s).original_index
           THEN <<c>> \o s
           ELSE <<Head(s)>> \o InsertByIndex(c, Tail(s))

RECURSIVE SortByIndex(_)
SortByIndex(s) ==
    IF s = <<>> THEN <<>>
    ELSE InsertByIndex(s[Len(s)], SortByIndex(SubSeq(s, 1, Len(s) - 1)))

\* lines 431-442 with the overwriting loop.
GroupCommitsOverwrite(parsed) ==
    LET groups == GroupLoopOverwrite(parsed, 1, <<>>) IN
    [g \in DOMAIN groups |->
        [key |-> groups[g].key, commits |-> SortByIndex(groups[g].commits)]]

\* lines 431-442: group, then sort every group on original_index.
GroupCommits(parsed) ==
    LET groups == GroupLoop(parsed, 1, <<>>) IN
    [g \in DOMAIN groups |->
        [key |-> groups[g].key, commits |-> SortByIndex(groups[g].commits)]]

ReportInit ==
    /\ new_commits \in 1..MaxCommits
    /\ empty_message \in {{}, {1}, {new_commits}}
    /\ batch_size_arg \in 0..MaxBatchSize
    /\ workers_arg \in 1..MaxWorkers
    /\ batch_idx = 0
    /\ task = [p \in Commits |-> "new"]
    /\ parsed_data = [p \in Commits |-> NoData]
    /\ parsed_commits = <<>>
    /\ grouped_commits = <<>>
    /\ rpc = "dispatch"

ReportIdle ==
    /\ new_commits = 0
    /\ empty_message = {}
    /\ batch_size_arg = 0
    /\ workers_arg = 0
    /\ batch_idx = 0
    /\ task = [p \in Commits |-> "new"]
    /\ parsed_data = [p \in Commits |-> NoData]
    /\ parsed_commits = <<>>
    /\ grouped_commits = <<>>
    /\ rpc = "off"

\* lines 369-384: the next batch is submitted to a new executor.
Dispatch ==
    /\ rpc = "dispatch"
    /\ batch_idx < NumBatches
    /\ task' = [p \in Commits |-> IF p \in BatchOf(batch_idx) THEN "queued" ELSE task[p]]
    /\ rpc' = "collect"
    /\ UNCHANGED <<new_commits, empty_message, batch_size_arg, workers_arg, batch_idx, parsed_data,
                   parsed_commits, grouped_commits>>
    /\ UNCHANGED notReport

\* A free worker of the pool takes the oldest queued task.
StartTask(p) ==
    /\ rpc = "collect"
    /\ task[p] = "queued"
    /\ \A q \in Commits : q < p => task[q] # "queued"
    /\ Cardinality({q \in Commits : task[q] = "running"}) < PoolWidth
    /\ task' = [task EXCEPT ![p] = "running"]
    /\ UNCHANGED <<new_commits, empty_message, batch_size_arg, workers_arg, batch_idx, parsed_data,
                   parsed_commits, grouped_commits, rpc>>
    /\ UNCHANGED notReport

\* lines 266-346: parse_commit returns in its worker.
FinishTask(p) ==
    /\ rpc = "collect"
    /\ task[p] = "running"
    /\ \E r \in ParseCommitResults :
         parsed_data' = [parsed_data EXCEPT ![p] = ParseCommitOutcome(p, r)]
    /\ task' = [task EXCEPT ![p] = "finished"]
    /\ UNCHANGED <<new_commits, empty_message, batch_size_arg, workers_arg, batch_idx,
                   parsed_commits, grouped_commits, rpc>>
    /\ UNCHANGED notReport

\* The entry of parsed_commits for commit p (the commit itself is not stored
\* in the dict; the model keeps it to tell the entries apart).
EntryOf(p, d) ==
    [commit |-> p, summary |-> d.summary, type |-> d.type, scope |-> d.scope,
     impact |-> d.impact]

\* lines 387-418: as_completed yields a finished future; its result is
\* appended, or, when the future raised, the fallback entry; building that
\* entry raises again for an empty message, which nothing catches.
Consume(p) ==
    /\ rpc = "collect"
    /\ task[p] = "finished"
    /\ IF parsed_data[p] = Raised /\ FirstLineRaises(p)
         THEN /\ rpc' = "aborted"
              /\ UNCHANGED parsed_commits
         ELSE /\ parsed_commits' = Append(parsed_commits,
                    EntryOf(p, IF parsed_data[p] = Raised THEN FallbackData
                                                          ELSE parsed_data[p]))
              /\ UNCHANGED rpc
    /\ task' = [task EXCEPT ![p] = "consumed"]
    /\ UNCHANGED <<new_commits, empty_message, batch_size_arg, workers_arg, batch_idx,
                   parsed_data, grouped_commits>>
    /\ UNCHANGED notReport

\* lines 369, 378-379: every future of the batch is consumed, the executor is
\* shut down and the loop goes to the next batch, or leaves.
BatchDone ==
    /\ rpc = "collect"
    /\ \A p \in BatchOf(batch_idx) : task[p] = "consumed"
    /\ batch_idx' = batch_idx + 1
    /\ rpc' = IF batch_idx + 1 < NumBatches THEN "dispatch" ELSE "group"
    /\ UNCHANGED <<new_commits, empty_message, batch_size_arg, workers_arg, task, parsed_data,
                   parsed_commits, grouped_commits>>
    /\ UNCHANGED notReport

\* lines 430-442
Group ==
    /\ rpc = "group"
    /\ grouped_commits' = GroupCommits(parsed_commits)
    /\ rpc' = "done"
    /\ UNCHANGED <<new_commits, empty_message, batch_size_arg, workers_arg, batch_idx, task,
                   parsed_data, parsed_commits>>
    /\ UNCHANGED notReport

ReportNext ==
    \/ Dispatch
    \/ \E p \in Commits : StartTask(p)
    \/ \E p \in Commits : FinishTask(p)
    \/ \E p \in Commits : Consume(p)
    \/ BatchDone
    \/ Group

(***************************************************************************)
(* Part 3.  The response parsers of commit_msg.py: safe_int_convert and    *)
(* parse_text_response (349-488) and the reply parsing of                  *)
(* parse_single_file_diff (291-344).                                       *)
(*                                                                         *)
(* A string is a sequence of tokens.  A token is one character (" ", "-",  *)
(* "*", ",", a digit) or a run of characters that holds none of these (a   *)
(* field label such as "Name:", a word); the parsers look only at leading  *)
(* and trailing characters, at label prefixes, at commas and at digits and *)
(* minus signs, so a run behaves as one token.  The empty string is <<>>.  *)
(***************************************************************************)
MaxIntLen == 4
MaxLines == 3

DecimalDigits == {"1", "2", "3"}
\* str.isdigit() also accepts digits int() rejects; "sup2" stands for U+00B2.
OtherDigits == {"sup2"}

IsDigit(c) == c \in DecimalDigits \cup OtherDigits

DigitValue(c) == CASE c = "1" -> 1 [] c = "2" -> 2 [] c = "3" -> 3

RECURSIVE DecimalValue(_)
DecimalValue(s) ==
    IF s = <<>> THEN 0
    ELSE 10 * DecimalValue(SubSeq(s, 1, Len(s) - 1)) + DigitValue(s[Len(s)])

\* int(s) for a string of digit characters and minus signs: an optional sign
\* and one or more decimal digits, or ValueError.
PyInt(s) ==
    LET neg == s # <<>> /\ s[1] = "-"
        body == IF neg THEN Tail(s) ELSE s
    IN  IF body = <<>> \/ \E i \in DOMAIN body : body[i] \notin DecimalDigits
          THEN [ok |-> FALSE, value |-> 0]
          ELSE [ok |-> TRUE,
                value |-> IF neg THEN 0 - DecimalValue(body) ELSE DecimalValue(body)]

\* str.strip(), str.lstrip(chars)
RECURSIVE LStrip(_, _)
LStrip(s, chars) ==
    IF s # <<>> /\ Head(s) \in chars THEN LStrip(Tail(s), chars) ELSE s

RECURSIVE RStrip(_, _)
RStrip(s, chars) ==
    IF s # <<>> /\ s[Len(s)] \in chars THEN RStrip(SubSeq(s, 1, Len(s) - 1), chars) ELSE s

Strip(s) == RStrip(LStrip(s, {" "}), {" "})

StartsWith(s, label) == s # <<>> /\ s[1] = label

\* line.split(label, 1)[1].strip() for a line that starts with label
AfterLabel(s) == Strip(Tail(s))

\* str.lower()
LowerToken(t) ==
    CASE t = "None" -> "none" [] t = "N/A" -> "n/a" [] t = "Add" -> "add"
      [] t = "Renamed" -> "renamed" [] t = "File" -> "file" [] t = "Added" -> "added"
      [] OTHER -> t
Lower(s) == [i \in DOMAIN s |-> LowerToken(s[i])]

\* s.split(',')
RECURSIVE SplitComma(_, _)
SplitComma(s, current) ==
    IF s = <<>> THEN <<current>>
    ELSE IF Head(s) = "," THEN <<current>> \o SplitComma(Tail(s), <<>>)
    ELSE SplitComma(Tail(s), Append(current, Head(s)))

StripAll(parts) == [i \in DOMAIN parts |-> Strip(parts[i])]
NonEmpty(parts) == SelectSeq(parts, LAMBDA x : x # <<>>)

\* safe_int_convert keeping the digits alone.
safe_int_convert_digits(value) ==
    LET cleaned == SelectSeq(value, LAMBDA c : IsDigit(c))
        n == IF cleaned # <<>> THEN PyInt(cleaned) ELSE [ok |-> TRUE, value |-> 0]
    IN  IF n.ok THEN n.value ELSE 0

\* lines 361-367
safe_int_convert(value) ==
    LET cleaned == SelectSeq(value, LAMBDA c : IsDigit(c) \/ c = "-")
        n == IF cleaned # <<>> THEN PyInt(cleaned) ELSE [ok |-> TRUE, value |-> 0]
    IN  IF n.ok THEN n.value ELSE 0

NoChanges ==
    [additions |-> 0, deletions |-> 0, functions_modified |-> <<>>, key_changes |-> <<>>]

\* A file template that lacks its summary.
NewFileNoSummary == [name |-> <<>>, change_type |-> <<>>, changes |-> NoChanges]

\* lines 390-400, 408-418, 420-430: the dict a file block starts from
NewFile == [name |-> <<>>, change_type |-> <<>>, summary |-> <<>>, changes |-> NoChanges]

\* current_file: None, or a dict
NoCurrent == [some |-> FALSE]
Current(f) == [some |-> TRUE, file |-> f]

\* lines 351-359
EmptyResult ==
    [files |-> <<>>,
     overall_stats |-> [total_files |-> 0, total_additions |-> 0, total_deletions |-> 0,
                        change_types |-> [modify |-> 0, add |-> 0, delete |-> 0]]]

\* lines 372-482: one line of the reply; st is [result, current_file].
ParseTextLine(st, original_line) ==
    LET line == Strip(original_line)
        normalized == Strip(LStrip(line, {"-", " "}))
        cur == st.current_file
        res == st.result
        stats == res.overall_stats
        SetFile(f) == [st EXCEPT !.current_file = Current(f)]
        SetStats(x) == [st EXCEPT !.result.overall_stats = x]
    IN
    IF line = <<>> THEN st
    ELSE IF StartsWith(normalized, "OVERALL STATISTICS") THEN
        IF cur.some
          THEN [result |-> [res EXCEPT !.files = Append(@, cur.file)],
                current_file |-> NoCurrent]
          ELSE st
    ELSE IF StartsWith(normalized, "FILE SUMMARY") THEN
        IF ~cur.some THEN SetFile(NewFile) ELSE st
    ELSE IF StartsWith(normalized, "Name:") THEN
        LET pushed == cur.some /\ cur.file.name # <<>>
            files2 == IF pushed THEN Append(res.files, cur.file) ELSE res.files
            f2 == IF pushed \/ ~cur.some THEN NewFile ELSE cur.file
        IN  [result |-> [res EXCEPT !.files = files2],
             current_file |-> Current([f2 EXCEPT !.name = AfterLabel(normalized)])]
    ELSE IF StartsWith(normalized, "Type:") THEN
        IF cur.some
          THEN SetFile([cur.file EXCEPT !.change_type = AfterLabel(normalized)])
          ELSE st
    ELSE IF StartsWith(normalized, "Summary:") THEN
        IF cur.some
          THEN SetFile([cur.file EXCEPT !.summary = AfterLabel(normalized)])
          ELSE st
    ELSE IF StartsWith(normalized, "Lines Added:") THEN
        IF cur.some
          THEN SetFile([cur.file EXCEPT
                          !.changes.additions = safe_int_convert(AfterLabel(normalized))])
          ELSE st
    ELSE IF StartsWith(normalized, "Lines Deleted:") THEN
        IF cur.some
          THEN SetFile([cur.file EXCEPT
                          !.changes.deletions = safe_int_convert(AfterLabel(normalized))])
          ELSE st
    ELSE IF StartsWith(normalized, "Modified Functions:") THEN
        LET funcs == AfterLabel(normalized) IN
        IF cur.some /\ Lower(funcs) # <<"none">>
          THEN SetFile([cur.file EXCEPT !.changes.functions_modified =
                          NonEmpty(StripAll(SplitComma(funcs, <<>>)))])
          ELSE st
    ELSE IF StartsWith(normalized, "Key Changes:") THEN st
    ELSE IF StartsWith(normalized, "*") THEN
        IF cur.some
          THEN SetFile([cur.file EXCEPT !.changes.key_changes =
                          Append(@, Strip(LStrip(normalized, {"*"})))])
          ELSE st
    ELSE IF StartsWith(normalized, "Total Files Changed:") THEN
        SetStats([stats EXCEPT !.total_files = safe_int_convert(AfterLabel(normalized))])
    ELSE IF StartsWith(normalized, "Total Additions:") THEN
        SetStats([stats EXCEPT !.total_additions = safe_int_convert(AfterLabel(normalized))])
    ELSE IF StartsWith(normalized, "Total Deletions:") THEN
        SetStats([stats EXCEPT !.total_deletions = safe_int_convert(AfterLabel(normalized))])
    ELSE IF StartsWith(normalized, "Modified:") THEN
        SetStats([stats EXCEPT
                    !.change_types.modify = safe_int_convert(AfterLabel(normalized))])
    ELSE IF StartsWith(normalized, "Added:") THEN
        SetStats([stats EXCEPT
                    !.change_types.add = safe_int_convert(AfterLabel(normalized))])
    ELSE IF StartsWith(normalized, "Deleted:") THEN
        SetStats([stats EXCEPT
                    !.change_types.delete = safe_int_convert(AfterLabel(normalized))])
    ELSE st

RECURSIVE ParseTextLines(_, _)
ParseTextLines(st, text) ==
    IF text = <<>> THEN st
    ELSE ParseTextLines(ParseTextLine(st, Head(text)), Tail(text))

\* lines 349-488; text is text.split('\n')
parse_text_response(text) ==
    LET st == ParseTextLines([result |-> EmptyResult, current_file |-> NoCurrent], text)
    IN  IF st.current_file.some
          THEN [st.result EXCEPT !.files = Append(@, st.current_file.file)]
          ELSE st.result

\* lines 309-312, 314-317: int(''.join(c for c in ... if c.isdigit())), 0 on ValueError
DigitsToInt(value) ==
    LET n == PyInt(SelectSeq(value, LAMBDA c : IsDigit(c)))
    IN  IF n.ok THEN n.value ELSE 0

\* lines 292-297: the fields before the first line of the reply
SingleStart ==
    [change_type |-> <<"modify">>, summary |-> <<>>, additions |-> 0, deletions |-> 0,
     functions_modified |-> <<>>, key_changes |-> <<>>]

\* lines 299-328: one line of the per-file reply
ParseSingleLine(st, raw) ==
    LET line == Strip(raw) IN
    IF line = <<>> THEN st
    ELSE IF StartsWith(line, "Type:") THEN
        [st EXCEPT !.change_type = Lower(AfterLabel(line))]
    ELSE IF StartsWith(line, "Summary:") THEN
        [st EXCEPT !.summary = AfterLabel(line)]
    ELSE IF StartsWith(line, "Lines Added:") THEN
        [st EXCEPT !.additions = DigitsToInt(AfterLabel(line))]
    ELSE IF StartsWith(line, "Lines Deleted:") THEN
        [st EXCEPT !.deletions = DigitsToInt(AfterLabel(line))]
    ELSE IF StartsWith(line, "Modified Functions:") THEN
        LET functions_text == AfterLabel(line) IN
        IF Lower(functions_text) \notin {<<"none">>, <<"n/a">>}
          THEN [st EXCEPT !.functions_modified = StripAll(SplitComma(functions_text, <<>>))]
          ELSE st
    ELSE IF StartsWith(line, "Key Changes:") THEN st
    ELSE IF StartsWith(line, "-") \/ StartsWith(line, "*") THEN
        LET key_change == Strip(LStrip(line, {"-", "*", " "})) IN
        IF key_change # <<>> /\ Lower(key_change) \notin {<<"none">>, <<"n/a">>}
          THEN [st EXCEPT !.key_changes = Append(@, key_change)]
          ELSE st
    ELSE st

RECURSIVE ParseSingleLines(_, _)
ParseSingleLines(st, response) ==
    IF response = <<>> THEN st
    ELSE ParseSingleLines(ParseSingleLine(st, Head(response)), Tail(response))

\* lines 291-344: the FileChange built from the reply for file_name
parse_single_response(file_name, response) ==
    LET st == ParseSingleLines(SingleStart, response)
        key_changes == IF st.key_changes = <<>> /\ st.summary # <<>>
                         THEN <<st.summary>> ELSE st.key_changes
    IN  [name |-> file_name, change_type |-> st.change_type, summary |-> st.summary,
         changes |-> [additions |-> st.additions, deletions |-> st.deletions,
                      functions_modified |-> st.functions_modified,
                      key_changes |-> key_changes]]

\* The inputs of the parsers.
IntChars == {"1", "2", "3", "-", " ", "lines", "none", "sup2"}

TextLines ==
    { <<>>,
      <<"-", " ">>,
      <<"FILE SUMMARY">>,
      <<"OVERALL STATISTICS">>,
      <<"-", " ", "Name:", " ", "a">>,
      <<"Name:", " ", "b">>,
      <<"Name:">>,
      <<"-", " ", "Type:", " ", "add">>,
      <<" ", " ", "Summary:", " ", "s">>,
      <<"-", " ", "Lines Added:", " ", "1", "2", " ", "lines">>,
      <<"Lines Added:", " ", "-", "3">>,
      <<"Lines Deleted:", " ", "none">>,
      <<"-", " ", "Lines Deleted:", " ", "3">>,
      <<"-", " ", "Modified Functions:", " ", "None">>,
      <<"Modified Functions:", " ", "f", ",", " ", "g">>,
      <<"-", " ", "Key Changes:">>,
      <<" ", " ", "*", " ", "c">>,
      <<"-", " ", "Total Files Changed:", " ", "2">>,
      <<"Total Additions:", " ", "1", "2">>,
      <<"Total Deletions:", " ", "3">>,
      <<"-", " ", "Modified:", " ", "1">>,
      <<" ", " ", "*", " ", "Modified:", " ", "1">>,
      <<"Added:", " ", "2">>,
      <<"Deleted:", " ", "1">>,
      <<"words">> }

SingleLines ==
    { <<>>,
      <<"Type:", " ", "Add">>,
      <<"-", " ", "Type:", " ", "add">>,
      <<"Summary:", " ", "s">>,
      <<"Lines Added:", " ", "1", "2">>,
      <<"Lines Added:", " ", "-", "3">>,
      <<"Lines Deleted:", " ", "none">>,
      <<"Lines Deleted:", " ", "3", "sup2">>,
      <<"Modified Functions:", " ", "N/A">>,
      <<"Modified Functions:", " ", "f", ",", "g">>,
      <<"Key Changes:">>,
      <<"-", " ", "c">>,
      <<"*", " ", "none">> }

NotRun == [done |-> FALSE]

\* A parser and a text for it, of at most MaxIntLen characters or MaxLines lines.
ParseInit ==
    /\ \/ \E n \in 0..MaxIntLen : \E value \in [1..n -> IntChars] :
            parseInput = [parser |-> "safe_int_convert", arg |-> value]
       \/ \E n \in 0..MaxLines : \E text \in [1..n -> TextLines] :
            parseInput = [parser |-> "parse_text_response", arg |-> text]
       \/ \E n \in 0..MaxLines : \E response \in [1..n -> SingleLines] :
            parseInput = [parser |-> "parse_single_file_diff", arg |-> response]
    /\ parseOutput = NotRun

ParseIdle ==
    /\ parseInput = [parser |-> "none", arg |-> <<>>]
    /\ parseOutput = NotRun

SafeIntConvert ==
    /\ parseInput.parser = "safe_int_convert"
    /\ ~parseOutput.done
    /\ parseOutput' = [done |-> TRUE, value |-> safe_int_convert(parseInput.arg)]
    /\ UNCHANGED parseInput
    /\ UNCHANGED notParse

ParseTextResponse ==
    /\ parseInput.parser = "parse_text_response"
    /\ ~parseOutput.done
    /\ parseOutput' = [done |-> TRUE, value |-> parse_text_response(parseInput.arg)]
    /\ UNCHANGED parseInput
    /\ UNCHANGED notParse

ParseSingleFileReply ==
    /\ parseInput.parser = "parse_single_file_diff"
    /\ ~parseOutput.done
    /\ parseOutput' = [done |-> TRUE,
                       value |-> parse_single_response(<<"a">>, parseInput.arg)]
    /\ UNCHANGED parseInput
    /\ UNCHANGED notParse

ParseNext == SafeIntConvert \/ ParseTextResponse \/ ParseSingleFileReply

(***************************************************************************)
(* Part 4.  The structured-diff builder of commit_msg.py:                  *)
(* parse_diff_to_structured (53-118), parse_large_diff (120-267),          *)
(* parse_single_file_diff (269-347), create_fallback_structure (490-523).  *)
(*                                                                         *)
(* diff_output is its length and the number of files its "diff --git"      *)
(* lines split it into; the files are 1..n in the order of file_diffs.     *)
(* Within the bounds a chunk never holds more files than the executor of   *)
(* line 173 has workers, so a submitted request runs at once.              *)
(***************************************************************************)
MaxFiles == 11

\* line 59
ChunkThreshold == 10000
\* line 157
DefaultChunks == 5
\* line 239
SummaryThreshold == 10

DiffLengths == {ChunkThreshold - 1, ChunkThreshold, ChunkThreshold + 1}

\* The names bound at module level in commit_msg.py (lines 14-51 and the defs).
CommitMsgNames ==
    {"os", "sys", "dotenv", "datetime", "Path", "concurrent", "tqdm", "src_dir",
     "AIClient", "get_current_branch", "stage_all_changes", "get_diff_files",
     "get_diff_output", "commit_changes", "push_changes", "prompt_yes_no",
     "has_staged_changes", "get_staged_files", "get_unstaged_files", "stage_files",
     "parse_file_selection", "parse_yaml_response", "handle_interrupt",
     "AI_TEMPERATURE", "AI_LARGE_MODEL", "AI_SMALL_MODEL",
     "parse_diff_to_structured", "parse_large_diff", "parse_single_file_diff",
     "parse_text_response", "create_fallback_structure", "clean_file_name",
     "write_to_file", "commit_msg", "format_structured_diff", "generate_title",
     "generate_summary", "generate_details", "create_git_commit_msg"}

\* Looking a name up inside a function of commit_msg.py; NameError when FALSE.
Resolves(name) == name \in CommitMsgNames

\* line 59
NeedsChunking(len) == len > ChunkThreshold

\* A builder that also summarises a commit of exactly ten files.
NeedsSummaryFromTen(n) == n >= SummaryThreshold

\* line 239
NeedsSummary(n) == n > SummaryThreshold

\* line 157
ChunkSize(n) == IF n \div DefaultChunks >= 1 THEN n \div DefaultChunks ELSE 1

\* lines 158-170: the chunk a file lands in, and the number of chunks
ChunkOf(f, n) == ((f - 1) \div ChunkSize(n)) + 1
NumChunks(n) == (n + ChunkSize(n) - 1) \div ChunkSize(n)

\* lines 503-514: an entry of the fallback structure
FallbackEntry(f) ==
    [name |-> f, change_type |-> <<"modify">>, summary |-> <<"Modified ", "py", " file">>,
     changes |-> [additions |-> 0, deletions |-> 0, functions_modified |-> <<>>,
                  key_changes |-> << <<"Updated ", f>> >>]]

\* lines 490-523
create_fallback_structure(files) ==
    [by |-> "create_fallback_structure",
     files |-> [i \in DOMAIN files |-> FallbackEntry(files[i])],
     overall_stats |-> [total_files |-> Len(files), total_additions |-> 0,
                        total_deletions |-> 0,
                        change_types |-> [modify |-> Len(files), add |-> 0, delete |-> 0],
                        file_types |-> Len(files)]]

\* An entry that records the failure instead (the shape of lines 204-214).
UnparsedEntryWithError(f) ==
    [name |-> f, change_type |-> <<"modify">>, summary |-> <<"Modified ", f>>,
     changes |-> [additions |-> 0, deletions |-> 0, functions_modified |-> <<>>,
                  key_changes |-> << <<"Error processing: ", "overloaded_error">> >>]]

\* lines 191-201: the entry for a file whose request returned None
UnparsedEntry(f) ==
    [name |-> f, change_type |-> <<"modify">>, summary |-> <<"Modified ", f>>,
     changes |-> [additions |-> 0, deletions |-> 0, functions_modified |-> <<>>,
                  key_changes |-> << <<"Updated ", f>> >>]]

\* The reply of the service for file f.
ReplyFor(f) ==
    IF f % 2 = 1
      THEN << <<"Type:", " ", "Add">>, <<"Lines Added:", " ", "1", "2">> >>
      ELSE << <<"Summary:", " ", "s">>, <<"Lines Deleted:", " ", "3">> >>

\* lines 183-202: what the collecting loop appends for file f
FileResult(f, failed) ==
    IF f \in failed THEN UnparsedEntry(f) ELSE parse_single_response(f, ReplyFor(f))

\* A collecting loop that keeps only the files that were parsed.
CollectedIfParsed(results, f, failed) ==
    IF f \in failed THEN results ELSE Append(results, FileResult(f, failed))

\* lines 186-202: file_results after the future of file f is consumed
Collected(results, f, failed) == Append(results, FileResult(f, failed))

CountType(results, t) == Cardinality({i \in DOMAIN results : results[i].change_type = t})

\* A combination that counts the three initial keys only.
CombinedStandardTypes(results) ==
    [by |-> "parse_large_diff",
     files |-> results,
     overall_stats |->
        [total_files |-> Len(results),
         total_additions |-> SeqSum([i \in DOMAIN results |-> results[i].changes.additions]),
         total_deletions |-> SeqSum([i \in DOMAIN results |-> results[i].changes.deletions]),
         change_types |-> [modify |-> CountType(results, <<"modify">>),
                           add |-> CountType(results, <<"add">>),
                           delete |-> CountType(results, <<"delete">>)]]]

\* lines 221-224: the keys of change_types, each the text of a change type:
\* the three initial keys and every change_type of a result
TypeKeys(results) ==
    {<<"modify">>, <<"add">>, <<"delete">>} \cup {results[i].change_type : i \in DOMAIN results}

\* lines 217-236
Combined(results) ==
    [by |-> "parse_large_diff",
     files |-> results,
     overall_stats |->
        [total_files |-> Len(results),
         total_additions |-> SeqSum([i \in DOMAIN results |-> results[i].changes.additions]),
         total_deletions |-> SeqSum([i \in DOMAIN results |-> results[i].changes.deletions]),
         change_types |-> [t \in TypeKeys(results) |-> CountType(results, t)]]]

NoStructure == [by |-> "none"]

\* The replies of the single request of the small path.
SmallReplies ==
    { << <<"FILE SUMMARY">>, <<"-", " ", "Name:", " ", "a">> >>, << <<"words">> >> }

DiffInit ==
    /\ diff \in [len : DiffLengths, files : 0..MaxFiles]
    /\ diff_files = [i \in 1..diff.files |-> i]
    /\ failing \in {{}, {0}, {1} \cap (1..diff.files), 1..diff.files, 0..diff.files}
    /\ dpc = "start"
    /\ chunk_idx = 0
    /\ ftask = [f \in 1..diff.files |-> "new"]
    /\ file_results = <<>>
    /\ aiCalls = 0
    /\ structured = NoStructure

DiffIdle ==
    /\ diff = [len |-> 0, files |-> 0]
    /\ diff_files = <<>>
    /\ failing = {}
    /\ dpc = "off"
    /\ chunk_idx = 0
    /\ ftask = <<>>
    /\ file_results = <<>>
    /\ aiCalls = 0
    /\ structured = NoStructure

\* lines 59, 63-118: the path of a diff that is not chunked.  The names
\* retry_ai_request and args are looked up at line 98; the NameError is
\* caught at line 111.
ParseDiffSmall ==
    /\ dpc = "start"
    /\ ~NeedsChunking(diff.len)
    /\ IF Resolves("retry_ai_request") /\ Resolves("args")
         THEN \E reply \in SmallReplies, ok \in BOOLEAN :
                /\ aiCalls' = aiCalls + 1
                /\ structured' =
                     IF ok THEN [by |-> "parse_text_response",
                                 parsed |-> parse_text_response(reply)]
                           ELSE create_fallback_structure(diff_files)
         ELSE /\ aiCalls' = aiCalls
              /\ structured' = create_fallback_structure(diff_files)
    /\ dpc' = "done"
    /\ UNCHANGED <<diff, diff_files, failing, chunk_idx, ftask, file_results>>
    /\ UNCHANGED notDiff

\* lines 59-61, 120-181: split by file, build the chunks, submit the first
SplitLarge ==
    /\ dpc = "start"
    /\ NeedsChunking(diff.len)
    /\ IF diff.files = 0
         THEN /\ structured' = create_fallback_structure(diff_files)
              /\ dpc' = "done"
              /\ UNCHANGED <<chunk_idx, ftask>>
         ELSE /\ chunk_idx' = 1
              /\ ftask' = [f \in 1..diff.files |->
                             IF ChunkOf(f, diff.files) = 1 THEN "queued" ELSE "new"]
              /\ dpc' = "chunks"
              /\ UNCHANGED structured
    /\ UNCHANGED <<diff, diff_files, failing, file_results, aiCalls>>
    /\ UNCHANGED notDiff

\* lines 269-347: parse_single_file_diff in a worker; one request (line 289)
FileCall(f) ==
    /\ dpc = "chunks"
    /\ f \in DOMAIN ftask
    /\ ftask[f] = "queued"
    /\ aiCalls' = aiCalls + 1
    /\ ftask' = [ftask EXCEPT ![f] = "finished"]
    /\ UNCHANGED <<diff, diff_files, failing, dpc, chunk_idx, file_results, structured>>
    /\ UNCHANGED notDiff

\* lines 183-202: as_completed hands over a finished future
Collect(f) ==
    /\ dpc = "chunks"
    /\ f \in DOMAIN ftask
    /\ ftask[f] = "finished"
    /\ file_results' = Collected(file_results, f, failing)
    /\ ftask' = [ftask EXCEPT ![f] = "consumed"]
    /\ UNCHANGED <<diff, diff_files, failing, dpc, chunk_idx, aiCalls, structured>>
    /\ UNCHANGED notDiff

ChunkConsumed ==
    \A f \in DOMAIN ftask : ChunkOf(f, diff.files) = chunk_idx => ftask[f] = "consumed"

\* lines 176-181: the next chunk is submitted when the last one is consumed
NextChunk ==
    /\ dpc = "chunks"
    /\ ChunkConsumed
    /\ chunk_idx < NumChunks(diff.files)
    /\ chunk_idx' = chunk_idx + 1
    /\ ftask' = [f \in DOMAIN ftask |->
                   IF ChunkOf(f, diff.files) = chunk_idx + 1 THEN "queued" ELSE ftask[f]]
    /\ UNCHANGED <<diff, diff_files, failing, dpc, file_results, aiCalls, structured>>
    /\ UNCHANGED notDiff

\* lines 217-267: combine, and the summary request of a large commit; a
\* failure of that request is swallowed (line 264)
Combine ==
    /\ dpc = "chunks"
    /\ ChunkConsumed
    /\ chunk_idx = NumChunks(diff.files)
    /\ IF NeedsSummary(Len(file_results))
         THEN /\ aiCalls' = aiCalls + 1
              /\ structured' = [summarised |-> 0 \notin failing] @@ Combined(file_results)
         ELSE /\ aiCalls' = aiCalls
              /\ structured' = [summarised |-> FALSE] @@ Combined(file_results)
    /\ dpc' = "done"
    /\ UNCHANGED <<diff, diff_files, failing, chunk_idx, ftask, file_results>>
    /\ UNCHANGED notDiff

DiffNext ==
    \/ ParseDiffSmall
    \/ SplitLarge
    \/ \E f \in 1..MaxFiles : FileCall(f)
    \/ \E f \in 1..MaxFiles : Collect(f)
    \/ NextChunk
    \/ Combine

(***************************************************************************)
(* Part 5.  The commit workflow: create_git_commit_msg and commit_msg of   *)
(* src/logic_ai_tools/git/commit_msg.py, with the helpers of git/utils.py  *)
(* and utils/interrupt_handler.py.                                         *)
(*                                                                         *)
(* A text is a sequence of tokens; the user's message is a sequence of     *)
(* characters, a file name is the sequence of its path components and      *)
(* separators.  The final commit message is the list of its lines.  The    *)
(* trace records, in order, the prompts answered, the worker pools opened  *)
(* and closed and the git commands run.  git add is taken to succeed.      *)
(***************************************************************************)
MaxNameLines == 3
MaxReplies == 3
MaxNames == 2

\* user_msg.strip()[:50], line 847
TitleLimit == 50

\* The k-th changed file of the working tree; odd ones lie in a directory.
FileName(k) ==
    IF k % 2 = 1 THEN <<"src", "/", "f", ToString(k), ".py">>
                 ELSE <<"f", ToString(k), ".py">>

LongMessage == [i \in 1..(TitleLimit + 1) |-> "x"]
UserMessages == {<<>>, <<" ">>, <<" ", "f", "i", "x", " ">>, LongMessage}

\* What the user may type at a yes/no prompt, and Ctrl-C.
Answers == {"", "y", "n"}
CtrlC == "KeyboardInterrupt"

\* What the user may type at the file selection: nothing, or some numbers.
Selections ==
    {[blank |-> TRUE, numbers |-> {}], [blank |-> FALSE, numbers |-> {1}],
     [blank |-> FALSE, numbers |-> {MaxNames + 7}]}

\* The prompts and the try/except KeyboardInterrupt block around each:
\* "message" 910-918, "use_staged" 564-593, "selection" 578-591 and 606-620,
\* "commit" 724-744, "push" 730-740.
Prompts == {"message", "use_staged", "selection", "commit", "push"}

InterceptedInCommitMsgOnly(prompt) == prompt \in Prompts \ {"message"}
Intercepted(prompt) == prompt \in Prompts

\* prompt_yes_no answering yes whatever was typed.
prompt_yes_no_always(answer) == TRUE
\* git/utils.py 191-204; answer is the input after strip().lower()
prompt_yes_no(answer) == answer = "" \/ answer = "y"

\* git/utils.py 266-316, on the parsed selection
RECURSIVE InRange(_, _, _)
InRange(numbers, file_list, i) ==
    IF i > Len(file_list) THEN <<>>
    ELSE (IF i \in numbers THEN <<file_list[i]>> ELSE <<>>)
         \o InRange(numbers, file_list, i + 1)

parse_file_selection(selection, file_list) ==
    IF selection.blank THEN file_list ELSE InRange(selection.numbers, file_list, 1)

\* One entry of the trace.
Event(ev, what, answer, ok) == [ev |-> ev, what |-> what, answer |-> answer, ok |-> ok]
Prompted(what, answer) == Event("prompt", what, answer, TRUE)
PoolOpen(what) == Event("pool_open", what, "", TRUE)
PoolClose(what) == Event("pool_close", what, "", TRUE)
Git(cmd, ok) == Event("git", cmd, "", ok)

\* stage_files([file]) for each selected file, lines 583-586 and 611-614
GitAdds(files) == [i \in DOMAIN files |-> Git("add", TRUE)]

\* name.split('/')[-1]
RECURSIVE AfterLastSlash(_)
AfterLastSlash(name) ==
    IF \E i \in DOMAIN name : name[i] = "/"
    THEN AfterLastSlash(Tail(name))
    ELSE name

UpdateFiles == <<"Update ", "files">>
NoSummary == <<"No Summary">>

\* lines 798-810: the list, in its order; a phrase is the sequence of its words
\* and blanks, so that "Title:" is a part of "Commit Title:"
UnwantedPhrases ==
    << <<"Concise", " ", "Commit", " ", "Title:">>,
       <<"Here is the title:">>,
       <<"Title:">>,
       <<"Commit", " ", "Title:">>,
       <<"Suggested", " ", "Title:">>,
       <<"Generated", " ", "Title:">>,
       <<"Commit", " ", "Message:">>,
       <<"Here's a concise title:">>,
       <<"Based on the changes:">>,
       <<"I suggest this title:">>,
       <<"Proposed", " ", "Title:">> >>

\* phrase in title
Contains(title, phrase) ==
    \E i \in 1..(Len(title) - Len(phrase) + 1) :
        SubSeq(title, i, i + Len(phrase) - 1) = phrase

\* title.replace(phrase, "")
RECURSIVE Replace(_, _)
Replace(title, phrase) ==
    IF title = <<>> THEN <<>>
    ELSE IF Len(phrase) <= Len(title) /\ SubSeq(title, 1, Len(phrase)) = phrase
         THEN Replace(SubSeq(title, Len(phrase) + 1, Len(title)), phrase)
         ELSE <<Head(title)>> \o Replace(Tail(title), phrase)

\* lines 832-834, from the i-th phrase of the list on
RECURSIVE RemovePhrases(_, _)
RemovePhrases(title, i) ==
    IF i > Len(UnwantedPhrases) THEN title
    ELSE RemovePhrases(IF Contains(title, UnwantedPhrases[i])
                       THEN Strip(Replace(title, UnwantedPhrases[i]))
                       ELSE title,
                       i + 1)

\* What AIClient.get_response does for the title request.
TitleReplies ==
    {[kind |-> "text", text |-> <<"Add", " ", "parser">>],
     [kind |-> "text", text |-> <<"Title:", " ", "Add", " ", "parser">>],
     [kind |-> "text", text |-> UpdateFiles],
     [kind |-> "overloaded_error", text |-> <<>>],
     [kind |-> "error", text |-> <<>>]}

\* What AIClient.get_response does for the summary request.
SummaryReplies ==
    {[kind |-> "text", text |-> <<"Adds a parser.">>],
     [kind |-> "text", text |-> NoSummary],
     [kind |-> "overloaded_error", text |-> <<>>],
     [kind |-> "error", text |-> <<>>]}

Take(s, n) == IF Len(s) > n THEN SubSeq(s, 1, n) ELSE s

\* The fallback title with the whole name of the first file.
FallbackTitleWholeName(sd) ==
    IF sd.files # <<>> THEN <<"Update ">> \o sd.files[1].name ELSE UpdateFiles
\* lines 851-855
FallbackTitle(sd) ==
    IF sd.files # <<>> THEN <<"Update ">> \o AfterLastSlash(sd.files[1].name)
    ELSE UpdateFiles

\* lines 790-855
generate_title(msg, sd, reply) ==
    IF reply.kind = "text"
    THEN RemovePhrases(Strip(reply.text), 1)
    ELSE IF msg # <<>> /\ Strip(msg) # <<>>
         THEN Take(Strip(msg), TitleLimit)
         ELSE FallbackTitle(sd)

\* lines 857-900
generate_summary(msg, sd, reply) ==
    CASE reply.kind = "text" ->
            Strip(SelectSeq(Strip(reply.text), LAMBDA t : t # "Concise Summary:"))
      [] reply.kind = "overloaded_error" ->
            <<"Updated ", ToString(Len(sd.files)), " files with ",
              ToString(sd.overall_stats.total_additions), " additions and ",
              ToString(sd.overall_stats.total_deletions), " deletions.">>
      [] OTHER -> <<"Updated files with various changes.">>

\* create_fallback_structure (lines 490-523) on the lines of the file-name
\* string, the names being texts: f"Updated {f}" is the text after "Updated "
FallbackOfNames(lines) ==
    LET files == SelectSeq(StripAll(lines), LAMBDA f : f # <<>>)
    IN  [create_fallback_structure(files) EXCEPT
            !.files = [i \in DOMAIN files |->
                          [FallbackEntry(files[i]) EXCEPT
                              !.changes.key_changes = << <<"Updated ">> \o files[i] >>]]]

\* One file of the StructuredDiff that the parallel path builds (lines 288-347).
SummarisedEntry(f) ==
    [name |-> f, change_type |-> <<"modify">>, summary |-> <<"Parses replies">>,
     changes |-> [additions |-> 1, deletions |-> 0, functions_modified |-> <<>>,
                  key_changes |-> << <<"New parser">> >>]]

\* parse_large_diff, lines 139-253, for files that completed in this order
parse_large_diff_result(files) ==
    [by |-> "parse_large_diff",
     files |-> [i \in DOMAIN files |-> SummarisedEntry(files[i])],
     overall_stats |-> [total_files |-> Len(files), total_additions |-> Len(files),
                        total_deletions |-> 0,
                        change_types |-> [modify |-> Len(files), add |-> 0, delete |-> 0],
                        file_types |-> Len(files)]]

\* The orders in which the files of a list can complete.
Orders(files) ==
    {[i \in DOMAIN files |-> files[p[i]]] :
        p \in {q \in [DOMAIN files -> DOMAIN files] :
                  \A i, j \in DOMAIN files : q[i] = q[j] => i = j}}

NoStructuredDiff == [by |-> "none", files |-> <<>>,
                     overall_stats |-> [total_files |-> 0, total_additions |-> 0,
                                        total_deletions |-> 0,
                                        change_types |-> [modify |-> 0, add |-> 0, delete |-> 0],
                                        file_types |-> 0]]

\* The lines format_structured_diff gives for one file, lines 762-786
FileDetails(file) ==
    LET file_changes ==
            (IF file.summary # <<>>
             THEN << <<"Summary: ">> \o file.summary >> ELSE <<>>)
            \o (IF file.changes.functions_modified # <<>>
                THEN << <<"Modified functions: ">> \o file.changes.functions_modified >>
                ELSE <<>>)
            \o (IF file.changes.key_changes # <<>>
                THEN << <<"Key changes:">> >>
                     \o [i \in DOMAIN file.changes.key_changes |->
                            <<"  - ">> \o file.changes.key_changes[i]]
                ELSE <<>>)
    IN  IF file_changes # <<>>
        THEN << file.name \o <<":">> >>
             \o [i \in DOMAIN file_changes |-> <<"  ">> \o file_changes[i]]
        ELSE <<>>

\* lines 758-788
RECURSIVE format_structured_diff_from(_, _)
format_structured_diff_from(files, i) ==
    IF i > Len(files) THEN <<>>
    ELSE FileDetails(files[i]) \o format_structured_diff_from(files, i + 1)

format_structured_diff(sd) == format_structured_diff_from(sd.files, 1)

\* Every detail line turned into a bullet.
DetailLineDashed(detail) == <<"- ">> \o detail

\* lines 688-693
DetailLine(detail) ==
    IF detail[Len(detail)] \in {":", "Key changes:"} \/ detail[1] = "  "
    THEN detail
    ELSE <<"- ">> \o detail

\* lines 673-705: the lines of the final commit message
FinalMessage(m) ==
    (IF m.title # <<>> THEN <<m.title, <<>> >> ELSE <<>>)
    \o (IF m.summary # <<>> THEN << <<"Summary:">>, m.summary, <<>> >> ELSE <<>>)
    \o (IF m.details # <<>>
        THEN << <<"Details:">> >>
             \o [i \in DOMAIN SelectSeq(m.details, LAMBDA d : Strip(d) # <<>>) |->
                    DetailLine(SelectSeq(m.details, LAMBDA d : Strip(d) # <<>>)[i])]
             \o << <<>> >>
        ELSE <<>>)
    \o (IF m.files_changed # <<>>
        THEN << <<"Files Changed:">> >>
             \o [i \in DOMAIN m.files_changed |-> <<"- ">> \o m.files_changed[i].name]
        ELSE <<>>)

\* The minimal message without its file list.
MinimalMessageTitleOnly(msg, lines) ==
    << (IF msg # <<>> THEN msg ELSE UpdateFiles) >>

\* lines 711-716: the minimal message; the text ends with a line break
MinimalMessage(msg, lines) ==
    << (IF msg # <<>> THEN msg ELSE UpdateFiles), <<>>, <<"Files Changed:">> >>
    \o [i \in DOMAIN SelectSeq(lines, LAMBDA f : Strip(f) # <<>>) |->
           <<"- ">> \o Strip(SelectSeq(lines, LAMBDA f : Strip(f) # <<>>)[i])]
    \o << <<>> >>

\* lines 654-661: what the loop stores for a finished future
TitlePlaced(result) == IF result # <<>> /\ result # UpdateFiles THEN result ELSE <<>>
SummaryPlaced(result) == IF result # <<>> /\ result # NoSummary THEN result ELSE <<>>

Futures == {"title", "summary"}
NotSubmitted == [state |-> "none", raised |-> FALSE, result |-> <<>>]
NoMessage == [title |-> <<>>, summary |-> <<>>, details |-> <<>>, files_changed |-> <<>>]

\* The loop of line 651 ending after the first future.
AnyConsumed(fut) == \E t \in Futures : fut[t].state = "consumed"
\* lines 645-663: as_completed over both futures, inside the with block
AllConsumed(fut) == \A t \in Futures : fut[t].state = "consumed"

CommitIdle ==
    /\ cpc = "off"
    /\ user_msg = <<>>
    /\ staged_files = <<>>
    /\ unstaged_files = <<>>
    /\ large = FALSE
    /\ name_only = <<>>
    /\ structured_diff = NoStructuredDiff
    /\ future = [t \in Futures |-> NotSubmitted]
    /\ message = NoMessage
    /\ final_commit_message = <<>>
    /\ trace = <<>>
    /\ shown = <<>>
    /\ exit_status = "off"

\* The working tree before the run: some files staged, some changed and not staged.
CommitInit ==
    /\ cpc = "message"
    /\ user_msg = <<>>
    /\ \E s \in 0..MaxNames : \E u \in 0..(MaxNames - s) :
          /\ staged_files = [i \in 1..s |-> FileName(i)]
          /\ unstaged_files = [i \in 1..u |-> FileName(s + i)]
    /\ large \in BOOLEAN
    /\ name_only = <<>>
    /\ structured_diff = NoStructuredDiff
    /\ future = [t \in Futures |-> NotSubmitted]
    /\ message = NoMessage
    /\ final_commit_message = <<>>
    /\ trace = <<>>
    /\ shown = <<>>
    /\ exit_status = "running"

\* Ctrl-C at a prompt: handle_interrupt (interrupt_handler.py 9-16) where the
\* prompt lies in a try/except KeyboardInterrupt, a traceback otherwise.
Interrupt(prompt) ==
    /\ trace' = Append(trace, Prompted(prompt, CtrlC))
    /\ cpc' = "exited"
    /\ exit_status' = IF Intercepted(prompt) THEN "exit 0" ELSE "traceback"

\* return False from commit_msg, then exit(0) at lines 914-916
ReturnFalse ==
    /\ cpc' = "exited"
    /\ exit_status' = "exit 0"

\* lines 910-912 and 553-562, 594-604
EnterMessage ==
    /\ cpc = "message"
    /\ \/ /\ Interrupt("message")
          /\ UNCHANGED user_msg
       \/ /\ \E typed \in UserMessages : user_msg' = typed
          /\ trace' = Append(trace, Prompted("message", ""))
          /\ IF staged_files # <<>>
             THEN cpc' = "use_staged" /\ UNCHANGED exit_status
             ELSE IF unstaged_files = <<>>
                  THEN ReturnFalse
                  ELSE cpc' = "selection" /\ UNCHANGED exit_status
    /\ UNCHANGED <<staged_files, unstaged_files, large, name_only, structured_diff,
                   future, message, final_commit_message, shown>>
    /\ UNCHANGED notCommit

\* lines 564-577, 592-593
AskUseStaged ==
    /\ cpc = "use_staged"
    /\ \E answer \in Answers \cup {CtrlC} :
          IF answer = CtrlC
          THEN Interrupt("use_staged")
          ELSE /\ trace' = Append(trace, Prompted("use_staged", answer))
               /\ cpc' = IF prompt_yes_no(answer) \/ unstaged_files = <<>>
                         THEN "diff" ELSE "selection"
               /\ UNCHANGED exit_status
    /\ UNCHANGED <<user_msg, staged_files, unstaged_files, large, name_only,
                   structured_diff, future, message, final_commit_message, shown>>
    /\ UNCHANGED notCommit

\* lines 578-591 and 606-620
SelectFiles ==
    /\ cpc = "selection"
    /\ \/ /\ Interrupt("selection")
          /\ UNCHANGED <<staged_files, unstaged_files>>
       \/ \E selection \in Selections :
             LET selected_files == parse_file_selection(selection, unstaged_files)
             IN  IF selected_files # <<>>
                 THEN /\ trace' = Append(trace, Prompted("selection", "")) \o GitAdds(selected_files)
                      /\ staged_files' = staged_files \o selected_files
                      /\ unstaged_files' =
                            SelectSeq(unstaged_files, LAMBDA f : f \notin Range(selected_files))
                      /\ cpc' = "diff"
                      /\ UNCHANGED exit_status
                 ELSE /\ trace' = Append(trace, Prompted("selection", ""))
                      /\ UNCHANGED <<staged_files, unstaged_files>>
                      /\ IF staged_files # <<>>
                         THEN cpc' = "diff" /\ UNCHANGED exit_status
                         ELSE ReturnFalse
    /\ UNCHANGED <<user_msg, large, name_only, structured_diff, future, message,
                   final_commit_message, shown>>
    /\ UNCHANGED notCommit

\* lines 622-629: git diff --cached, which may fail for either of the two calls
\* (git/utils.py 37-73 give "" then)
GetDiff ==
    /\ cpc = "diff"
    /\ \E names_ok \in BOOLEAN, output_ok \in BOOLEAN :
          /\ name_only' = IF names_ok THEN staged_files ELSE <<>>
          /\ IF name_only' = <<>> /\ ~(output_ok /\ staged_files # <<>>)
             THEN ReturnFalse
             ELSE cpc' = "build" /\ UNCHANGED exit_status
    /\ UNCHANGED <<user_msg, staged_files, unstaged_files, large, structured_diff,
                   future, message, final_commit_message, trace, shown>>
    /\ UNCHANGED notCommit

\* line 633, parse_diff_to_structured (lines 47-67 and 139-154): a diff under the
\* threshold gets the fallback structure, a large one opens the pool of the
\* per-file requests; any exception leads to line 707
ParseDiff ==
    /\ cpc = "build"
    /\ \/ /\ cpc' = "except"
          /\ UNCHANGED <<structured_diff, trace>>
       \/ /\ ~large
          /\ structured_diff' = FallbackOfNames(name_only)
          /\ cpc' = "submit"
          /\ UNCHANGED trace
       \/ /\ large
          /\ trace' = Append(trace, PoolOpen("files"))
          /\ cpc' = "files_pool"
          /\ UNCHANGED structured_diff
    /\ UNCHANGED <<user_msg, staged_files, unstaged_files, large, name_only, future,
                   message, final_commit_message, shown, exit_status>>
    /\ UNCHANGED notCommit

\* lines 156-253: the pool of the per-file requests is left, the results are combined
FilesPoolDone ==
    /\ cpc = "files_pool"
    /\ \E files \in Orders(staged_files) :
          structured_diff' = parse_large_diff_result(files)
    /\ trace' = Append(trace, PoolClose("files"))
    /\ cpc' = "submit"
    /\ UNCHANGED <<user_msg, staged_files, unstaged_files, large, name_only, future,
                   message, final_commit_message, shown, exit_status>>
    /\ UNCHANGED notCommit

\* lines 636-648
Submit ==
    /\ cpc = "submit"
    /\ message' = [NoMessage EXCEPT !.files_changed = structured_diff.files]
    /\ future' = [t \in Futures |-> [NotSubmitted EXCEPT !.state = "running"]]
    /\ trace' = Append(trace, PoolOpen("title_summary"))
    /\ cpc' = "pool"
    /\ UNCHANGED <<user_msg, staged_files, unstaged_files, large, name_only,
                   structured_diff, final_commit_message, shown, exit_status>>
    /\ UNCHANGED notCommit

\* generate_title in its worker, lines 790-855
TitleCall ==
    /\ cpc = "pool"
    /\ future["title"].state = "running"
    /\ \E reply \in TitleReplies :
          future' = [future EXCEPT !["title"] =
                        [state |-> "done", raised |-> reply.kind # "text",
                         result |-> generate_title(user_msg, structured_diff, reply)]]
    /\ UNCHANGED <<cpc, user_msg, staged_files, unstaged_files, large, name_only,
                   structured_diff, message, final_commit_message, trace, shown,
                   exit_status>>
    /\ UNCHANGED notCommit

\* generate_summary in its worker, lines 857-900
SummaryCall ==
    /\ cpc = "pool"
    /\ future["summary"].state = "running"
    /\ \E reply \in SummaryReplies :
          future' = [future EXCEPT !["summary"] =
                        [state |-> "done", raised |-> reply.kind # "text",
                         result |-> generate_summary(user_msg, structured_diff, reply)]]
    /\ UNCHANGED <<cpc, user_msg, staged_files, unstaged_files, large, name_only,
                   structured_diff, message, final_commit_message, trace, shown,
                   exit_status>>
    /\ UNCHANGED notCommit

\* one round of the loop of lines 651-663
ConsumeFuture(t) ==
    /\ cpc = "pool"
    /\ future[t].state = "done"
    /\ future' = [future EXCEPT ![t].state = "consumed"]
    /\ message' = IF t = "title"
                  THEN [message EXCEPT !.title = TitlePlaced(future[t].result)]
                  ELSE [message EXCEPT !.summary = SummaryPlaced(future[t].result)]
    /\ UNCHANGED <<cpc, user_msg, staged_files, unstaged_files, large, name_only,
                   structured_diff, final_commit_message, trace, shown, exit_status>>
    /\ UNCHANGED notCommit

\* the end of the with block of line 645, then lines 665-705; any exception
\* leads to line 707
Assemble ==
    /\ cpc = "pool"
    /\ AllConsumed(future)
    /\ trace' = Append(trace, PoolClose("title_summary"))
    /\ \/ /\ cpc' = "except"
          /\ UNCHANGED <<message, final_commit_message>>
       \/ /\ message' = [message EXCEPT !.details = format_structured_diff(structured_diff)]
          /\ final_commit_message' = FinalMessage(message')
          /\ cpc' = "commit"
    /\ UNCHANGED <<user_msg, staged_files, unstaged_files, large, name_only,
                   structured_diff, future, shown, exit_status>>
    /\ UNCHANGED notCommit

\* lines 707-716
ManualFallback ==
    /\ cpc = "except"
    /\ shown' = Append(shown, "Using manual commit message fallback...")
    /\ final_commit_message' = MinimalMessage(user_msg, name_only)
    /\ cpc' = "commit"
    /\ UNCHANGED <<user_msg, staged_files, unstaged_files, large, name_only,
                   structured_diff, future, message, trace, exit_status>>
    /\ UNCHANGED notCommit

\* lines 724-727 and 741-744, with commit_changes (git/utils.py 75-79): the
\* exit status of git commit is not looked at
AskCommit ==
    /\ cpc = "commit"
    /\ \E answer \in Answers \cup {CtrlC} :
          IF answer = CtrlC
          THEN Interrupt("commit") /\ UNCHANGED shown
          ELSE IF prompt_yes_no(answer)
               THEN /\ \E ok \in BOOLEAN :
                         trace' = trace \o <<Prompted("commit", answer), Git("commit", ok)>>
                    /\ shown' = Append(shown, "Changes committed.")
                    /\ cpc' = "push"
                    /\ UNCHANGED exit_status
               ELSE /\ trace' = Append(trace, Prompted("commit", answer))
                    /\ shown' = Append(shown, "Changes not committed.")
                    /\ cpc' = "save_log"
                    /\ UNCHANGED exit_status
    /\ UNCHANGED <<user_msg, staged_files, unstaged_files, large, name_only,
                   structured_diff, future, message, final_commit_message>>
    /\ UNCHANGED notCommit

\* push_changes, git/utils.py 81-89: git push, and after its failure
\* git push --set-upstream origin <branch>, whose failure is raised
PushChanges ==
    {<<Git("push", TRUE)>>,
     <<Git("push", FALSE), Git("push --set-upstream", TRUE)>>,
     <<Git("push", FALSE), Git("push --set-upstream", FALSE)>>}

\* lines 730-740
AskPush ==
    /\ cpc = "push"
    /\ \E answer \in Answers \cup {CtrlC} :
          IF answer = CtrlC
          THEN Interrupt("push") /\ UNCHANGED shown
          ELSE IF prompt_yes_no(answer)
               THEN /\ \E run \in PushChanges :
                         /\ trace' = Append(trace, Prompted("push", answer)) \o run
                         /\ shown' = Append(shown, IF run[Len(run)].ok
                                                   THEN "Changes pushed."
                                                   ELSE "Failed to push changes")
                    /\ cpc' = "save_log"
                    /\ UNCHANGED exit_status
               ELSE /\ trace' = Append(trace, Prompted("push", answer))
                    /\ shown' = Append(shown, "Changes not pushed.")
                    /\ cpc' = "save_log"
                    /\ UNCHANGED exit_status
    /\ UNCHANGED <<user_msg, staged_files, unstaged_files, large, name_only,
                   structured_diff, future, message, final_commit_message>>
    /\ UNCHANGED notCommit

\* lines 746-756
SaveLog ==
    /\ cpc = "save_log"
    /\ cpc' = "returned"
    /\ exit_status' = "returned"
    /\ UNCHANGED <<user_msg, staged_files, unstaged_files, large, name_only,
                   structured_diff, future, message, final_commit_message, trace, shown>>
    /\ UNCHANGED notCommit

CommitNext ==
    \/ EnterMessage
    \/ AskUseStaged
    \/ SelectFiles
    \/ GetDiff
    \/ ParseDiff
    \/ FilesPoolDone
    \/ Submit
    \/ TitleCall
    \/ SummaryCall
    \/ \E t \in Futures : ConsumeFuture(t)
    \/ Assemble
    \/ ManualFallback
    \/ AskCommit
    \/ AskPush
    \/ SaveLog

(***************************************************************************)
(* Part 6.  AIClient.get_response of src/logic_ai_tools/ai/client.py: one  *)
(* call of the primary provider and, after its failure and the user's      *)
(* consent, one call of the secondary provider.  A text is a sequence of   *)
(* tokens; a model name is the sequence of its parts.                      *)
(***************************************************************************)
\* self.model of the client
ModelNames ==
    {<<"claude-3-", "haiku", "-20240307">>, <<"claude-3-5-", "sonnet", "-latest">>,
     <<"claude-3-", "opus", "-latest">>, <<"haiku", "-or-", "sonnet">>}

\* What a provider sends back, before strip()
ProviderTexts == {<<"reply">>, <<" ", "reply", " ">>}
PrimaryErrors == {"overloaded_error", "error"}
SecondaryErrors == {"openai_error"}

\* What the user may type at "Would you like to retry with OpenAI? (y/n): "
RetryAnswers == {<<"y">>, <<"Y">>, <<" ", "y", " ">>, <<"n">>, <<>>, <<"yes">>}

\* str.lower() on the tokens of an answer
LowerAnswer(s) ==
    [i \in DOMAIN s |-> CASE s[i] = "Y" -> "y" [] s[i] = "N" -> "n" [] OTHER -> s[i]]

\* The fallback taken whatever was typed.
ConsentAlways(answer) == TRUE
\* lines 92 and 96: input(...).lower().strip() == 'y'
Consent(answer) == Strip(LowerAnswer(answer)) = <<"y">>

\* lines 48-55
get_openai_model(model) ==
    IF "haiku" \in Range(model) THEN <<"small">>
    ELSE IF "sonnet" \in Range(model) THEN <<"medium">>
    ELSE <<"large">>

NoResponse == [kind |-> "none", value |-> <<>>, error |-> ""]
Returned(text) == [kind |-> "returned", value |-> text, error |-> ""]
RaisedError(e) == [kind |-> "raised", value |-> <<>>, error |-> e]
Exited == [kind |-> "exit 0", value |-> <<>>, error |-> ""]

ProviderCall(provider, model) == [provider |-> provider, model |-> model]

ClientIdle ==
    /\ apc = "off"
    /\ self_model = <<>>
    /\ openai_api_key = FALSE
    /\ retry = <<>>
    /\ console = <<>>
    /\ provider_calls = <<>>
    /\ primary_error = ""
    /\ client_result = NoResponse

\* lines 24-46: a client, and whether OPENAI_API_KEY is set
ClientInit ==
    /\ apc = "primary"
    /\ self_model \in ModelNames
    /\ openai_api_key \in BOOLEAN
    /\ retry = <<>>
    /\ console = <<>>
    /\ provider_calls = <<>>
    /\ primary_error = ""
    /\ client_result = NoResponse

\* lines 77-90 and 124-125: the request to the primary provider
PrimaryCall ==
    /\ apc = "primary"
    /\ provider_calls' = Append(provider_calls, ProviderCall("anthropic", self_model))
    /\ \/ \E text \in ProviderTexts :
             /\ client_result' = Returned(Strip(text))
             /\ apc' = "done"
             /\ UNCHANGED <<console, primary_error>>
       \/ \E e \in PrimaryErrors :
             /\ primary_error' = e
             /\ console' = Append(console, "Anthropic API Error")
             /\ apc' = "prompt"
             /\ UNCHANGED client_result
       \/ /\ client_result' = Exited
          /\ console' = Append(console, "Operation cancelled by user")
          /\ apc' = "done"
          /\ UNCHANGED primary_error
    /\ UNCHANGED <<self_model, openai_api_key, retry>>
    /\ UNCHANGED notClient

\* lines 91-96 and 122-123: the question on standard input
FallbackPrompt ==
    /\ apc = "prompt"
    /\ \/ /\ retry' = Append(retry, <<"KeyboardInterrupt">>)
          /\ client_result' = Exited
          /\ console' = Append(console, "Operation cancelled by user")
          /\ apc' = "done"
       \/ \E answer \in RetryAnswers :
             /\ retry' = Append(retry, answer)
             /\ UNCHANGED console
             /\ IF Consent(answer)
                THEN apc' = "secondary" /\ UNCHANGED client_result
                ELSE apc' = "done" /\ client_result' = RaisedError(primary_error)
    /\ UNCHANGED <<self_model, openai_api_key, provider_calls, primary_error>>
    /\ UNCHANGED notClient

\* lines 97-121, with initialize_openai_client (57-63)
SecondaryCall ==
    /\ apc = "secondary"
    /\ apc' = "done"
    /\ IF ~openai_api_key
       THEN /\ console' = Append(console, "OpenAI API key not found")
            /\ client_result' = RaisedError("ValueError")
            /\ UNCHANGED provider_calls
       ELSE /\ provider_calls' =
                  Append(provider_calls, ProviderCall("openai", get_openai_model(self_model)))
            /\ \/ \E text \in ProviderTexts :
                     /\ client_result' = Returned(Strip(text))
                     /\ console' = Append(console, "Using OpenAI model")
               \/ \E e \in SecondaryErrors :
                     /\ client_result' = RaisedError(e)
                     /\ console' = console \o <<"Using OpenAI model", "OpenAI API Error">>
               \/ /\ client_result' = Exited
                  /\ console' = console \o <<"Using OpenAI model", "Operation cancelled by user">>
    /\ UNCHANGED <<self_model, openai_api_key, retry, primary_error>>
    /\ UNCHANGED notClient

ClientNext ==
    \/ PrimaryCall
    \/ FallbackPrompt
    \/ SecondaryCall

(***************************************************************************)
(* Part 7.  Functions of commit_msg.py applied to one input each:          *)
(* generate_title on a reply that begins with a phrase of its list,        *)
(* create_fallback_structure on a string of names, and the combination of  *)
(* per-file results by parse_large_diff.  The input and the result are     *)
(* held in parseInput and parseOutput.                                     *)
(***************************************************************************)
\* Title texts without any phrase of the list.
TitleTexts == {<<"Add", " ", "parser">>, <<"Fix">>, <<"Commit", " ", "hooks">>}

\* The reply "<phrase><blanks><text>".
PrefixedReply(i, blanks, text) == UnwantedPhrases[i] \o blanks \o text

\* The lines of the file-name string handed to create_fallback_structure.
NameLines == {<<>>, <<" ">>, FileName(1), <<" ">> \o FileName(3) \o <<" ">>}

NameStrings ==
    UNION {[1..n -> NameLines] : n \in 0..MaxNameLines}

\* What parse_single_file_diff gives for one file: "none" when it returned
\* None, else the lines of the reply.
FileReplies ==
    { [kind |-> "none", lines |-> <<>>],
      [kind |-> "text", lines |-> << <<"Summary:", " ", "s">>, <<"Lines Deleted:", " ", "3">> >>],
      [kind |-> "text", lines |-> << <<"Type:", " ", "Add">>, <<"Lines Added:", " ", "1", "2">> >>],
      [kind |-> "text", lines |-> << <<"Type:", " ", "Renamed">>, <<"Lines Added:", " ", "2">> >>],
      [kind |-> "text", lines |-> << <<"Type:", " ", "File", " ", "Added">> >>],
      [kind |-> "text", lines |-> << <<"Type:">> >>] }

ReplyLists ==
    UNION {[1..n -> FileReplies] : n \in 0..MaxReplies}

\* lines 186-202: file_results for the given outcomes, file i named i
ResultsOf(replies) ==
    [i \in DOMAIN replies |->
        IF replies[i].kind = "none" THEN UnparsedEntry(i)
        ELSE parse_single_response(i, replies[i].lines)]

BuildInit ==
    /\ \/ \E i \in DOMAIN UnwantedPhrases, blanks \in {<<>>, <<" ">>}, text \in TitleTexts :
             parseInput = [parser |-> "generate_title",
                           arg |-> [phrase |-> i, text |-> text,
                                    reply |-> PrefixedReply(i, blanks, text)]]
       \/ \E lines \in NameStrings :
             parseInput = [parser |-> "create_fallback_structure", arg |-> [lines |-> lines]]
       \/ \E replies \in ReplyLists :
             parseInput = [parser |-> "parse_large_diff", arg |-> [replies |-> replies]]
    /\ parseOutput = NotRun

\* lines 828-836: the reply arrived
GenerateTitle ==
    /\ parseInput.parser = "generate_title"
    /\ ~parseOutput.done
    /\ parseOutput' =
          [done |-> TRUE,
           value |-> generate_title(<<>>, NoStructuredDiff,
                                    [kind |-> "text", text |-> parseInput.arg.reply])]
    /\ UNCHANGED parseInput
    /\ UNCHANGED notParse

\* lines 490-523
CreateFallbackStructure ==
    /\ parseInput.parser = "create_fallback_structure"
    /\ ~parseOutput.done
    /\ parseOutput' = [done |-> TRUE, value |-> FallbackOfNames(parseInput.arg.lines)]
    /\ UNCHANGED parseInput
    /\ UNCHANGED notParse

\* lines 216-236: the results of the files are combined
CombineResults ==
    /\ parseInput.parser = "parse_large_diff"
    /\ ~parseOutput.done
    /\ parseOutput' = [done |-> TRUE, value |-> Combined(ResultsOf(parseInput.arg.replies))]
    /\ UNCHANGED parseInput
    /\ UNCHANGED notParse

BuildNext ==
    \/ GenerateTitle
    \/ CreateFallbackStructure
    \/ CombineResults

(***************************************************************************)
(* The specifications.                                                     *)
(***************************************************************************)
InitRetry ==
    RetryInit /\ ReportIdle /\ ParseIdle /\ DiffIdle /\ CommitIdle /\ ClientIdle

SpecRetry == InitRetry /\ [][RetryNext]_vars

InitReport ==
    /\ platform \in Platforms
    /\ RetryIdle /\ ReportInit /\ ParseIdle /\ DiffIdle /\ CommitIdle /\ ClientIdle

SpecReport == InitReport /\ [][ReportNext]_vars

InitParse ==
    /\ platform = "posix"
    /\ RetryIdle /\ ReportIdle /\ ParseInit /\ DiffIdle /\ CommitIdle /\ ClientIdle

SpecParse == InitParse /\ [][ParseNext]_vars

InitDiff ==
    /\ platform = "posix"
    /\ RetryIdle /\ ReportIdle /\ ParseIdle /\ DiffInit /\ CommitIdle /\ ClientIdle

SpecDiff == InitDiff /\ [][DiffNext]_vars

InitCommit ==
    /\ platform = "posix"
    /\ RetryIdle /\ ReportIdle /\ ParseIdle /\ DiffIdle /\ CommitInit /\ ClientIdle

SpecCommit == InitCommit /\ [][CommitNext]_vars

InitClient ==
    /\ platform = "posix"
    /\ RetryIdle /\ ReportIdle /\ ParseIdle /\ DiffIdle /\ CommitIdle /\ ClientInit

SpecClient == InitClient /\ [][ClientNext]_vars

InitBuild ==
    /\ platform = "posix"
    /\ RetryIdle /\ ReportIdle /\ BuildInit /\ DiffIdle /\ CommitIdle /\ ClientIdle

SpecBuild == InitBuild /\ [][BuildNext]_vars

(***************************************************************************)
(* The claims.                                                             *)
(***************************************************************************)

\* C1: when the wrapped call fails (raises or times out) on its first k attempts
\* and succeeds on attempt k+1 (k < max_retries), retry_ai_request has called it
\* exactly k+1 times, has slept initial_delay * 2^(j-1) before the j-th retry
\* (j = 1..k) and at no other time, and returns the result of the successful call.
C1_BackoffThenSuccess ==
    \A i \in Invocations :
        LET k == Len(log[i]) - 1 IN
        ( /\ Len(log[i]) >= 1
          /\ log[i][Len(log[i])] = "ok"
          /\ \A j \in 1..k : log[i][j] \in {"Exception", "TimeoutError"} )
        => /\ k < max_retries
           /\ calls[i] = k + 1
           /\ Len(sleeps[i]) = k
           /\ \A j \in 1..k : sleeps[i][j] = initial_delay * (2 ^ (j - 1))
           /\ pc[i] = "returned"
           /\ outcome[i] = [type |-> "return", value |-> k + 1, error |-> NoError]

\* C1 witness: max_retries = 3, initial_delay = 1, two failures, then success:
\* three calls, sleeps of 1 and 2.
C1_Witness ==
    \E i \in Invocations :
        /\ max_retries = 3
        /\ initial_delay = 1
        /\ log[i] = <<"Exception", "TimeoutError", "ok">>
        /\ calls[i] = 3
        /\ sleeps[i] = <<1, 2>>
        /\ outcome[i].type = "return"

\* C2: when every attempt fails, retry_ai_request (max_retries >= 1) has called
\* the wrapped function exactly max_retries times, has not slept after the last
\* failed attempt, returns nothing and raises the error of the last attempt.
C2_AllAttemptsFail ==
    \A i \in Invocations :
        pc[i] = "raised"
        => /\ calls[i] = max_retries
           /\ Len(sleeps[i]) = max_retries - 1
           /\ outcome[i].type = "raise"
           /\ outcome[i].error = last_exception[i]
           /\ outcome[i].error.attempt = max_retries

\* C3: the per-call timeout is hard: once future.result(timeout) has given up,
\* the supervisor never waits for the wrapped call, which may still be running
\* (and may never return).
C3_HardTimeout ==
    \A i \in Invocations : ~(pc[i] = "executor_exit" /\ callState[i] = "running")

\* C4: retry_ai_request is safe to invoke from several pool workers at once: no
\* attempt of an invocation in a worker thread fails because of the thread it
\* runs in, so every attempt gets to call the wrapped function, and an
\* invocation whose call returns in time returns its result.
C4_WorkerThreadSafe ==
    \A i \in Invocations :
        thread[i] = "worker"
        => /\ \A j \in DOMAIN log[i] : log[i][j] # "ValueError"
           /\ Len(log[i]) <= calls[i]

\* C5: for every diff shorter than the chunking threshold of 10,000 characters,
\* parse_diff_to_structured has issued exactly one AI request when it returns.
C5_SmallDiffOneCall ==
    (dpc = "done" /\ diff.len < 10000) => aiCalls = 1

\* The chunks of n files in batches of b: ceil(n / b).
C6_Ceil(n, b) == (n + b - 1) \div b

\* C6 as stated: a diff of 10,000 characters or more that splits into n files,
\* processed in batches of b (b = max(1, n div 5)), takes the chunked path and
\* costs ceil(n / b) AI requests, plus one summary request exactly when n > 10.
C6_CallsPerBatch ==
    (dpc = "done" /\ diff.len >= 10000)
    => LET n == diff.files
           b == IF n \div 5 >= 1 THEN n \div 5 ELSE 1
       IN  /\ structured.by # "none"
           /\ n > 0 => structured.by = "parse_large_diff"
           /\ aiCalls = C6_Ceil(n, b) + (IF n > 10 THEN 1 ELSE 0)

\* C6 as amended: a diff longer than 10,000 characters that splits into n files
\* takes the chunked path and costs one AI request per file, n in all, plus one
\* summary request exactly when n > 10; the files go through in ceil(n / b)
\* chunks of b = max(1, n div 5); a diff of exactly 10,000 characters is not
\* chunked.
C6_CallsPerFile ==
    /\ (dpc = "done" /\ diff.len > 10000)
       => LET n == diff.files IN
          /\ n > 0 => /\ structured.by = "parse_large_diff"
                      /\ Len(structured.files) = n
                      /\ chunk_idx = C6_Ceil(n, IF n \div 5 >= 1 THEN n \div 5 ELSE 1)
          /\ aiCalls = n + (IF n > 10 THEN 1 ELSE 0)
    /\ (dpc = "done" /\ diff.len = 10000) => structured.by # "parse_large_diff"
    /\ (dpc = "chunks") => diff.len > 10000 /\ aiCalls <= diff.files

\* C6 witness: eleven files in a diff of 10,001 characters: eleven requests in
\* six chunks and the summary request.
C6_Witness ==
    /\ dpc = "done"
    /\ diff.len = 10001
    /\ diff.files = 11
    /\ chunk_idx = 6
    /\ aiCalls = 12
    /\ structured.summarised

C7_LabelAbsent(text, label) == \A i \in DOMAIN text : label \notin Range(text[i])

\* C7: for every response text parse_text_response returns a StructuredDiff with
\* files and overall_stats (total_files, total_additions, total_deletions,
\* change_types {modify, add, delete}); every FileChange has name, change_type,
\* summary, additions, deletions, functions_modified and key_changes; and a
\* field whose label occurs nowhere in the text is at its default.
C7_ParseTextTotal ==
    (parseInput.parser = "parse_text_response" /\ parseOutput.done)
    => LET text == parseInput.arg
           r == parseOutput.value
           stats == r.overall_stats
       IN
       /\ DOMAIN r = {"files", "overall_stats"}
       /\ DOMAIN stats =
            {"total_files", "total_additions", "total_deletions", "change_types"}
       /\ DOMAIN stats.change_types = {"modify", "add", "delete"}
       /\ C7_LabelAbsent(text, "Total Files Changed:") => stats.total_files = 0
       /\ C7_LabelAbsent(text, "Total Additions:") => stats.total_additions = 0
       /\ C7_LabelAbsent(text, "Total Deletions:") => stats.total_deletions = 0
       /\ C7_LabelAbsent(text, "Modified:") => stats.change_types.modify = 0
       /\ C7_LabelAbsent(text, "Added:") => stats.change_types.add = 0
       /\ C7_LabelAbsent(text, "Deleted:") => stats.change_types.delete = 0
       /\ (C7_LabelAbsent(text, "Name:") /\ C7_LabelAbsent(text, "FILE SUMMARY"))
            => r.files = <<>>
       /\ \A k \in DOMAIN r.files :
            LET f == r.files[k] IN
            /\ DOMAIN f = {"name", "change_type", "summary", "changes"}
            /\ DOMAIN f.changes =
                 {"additions", "deletions", "functions_modified", "key_changes"}
            /\ f.changes.additions \in Int
            /\ f.changes.deletions \in Int
            /\ C7_LabelAbsent(text, "Name:") => f.name = <<>>
            /\ C7_LabelAbsent(text, "Type:") => f.change_type = <<>>
            /\ C7_LabelAbsent(text, "Summary:") => f.summary = <<>>
            /\ C7_LabelAbsent(text, "Lines Added:") => f.changes.additions = 0
            /\ C7_LabelAbsent(text, "Lines Deleted:") => f.changes.deletions = 0
            /\ C7_LabelAbsent(text, "Modified Functions:")
                 => f.changes.functions_modified = <<>>
            /\ C7_LabelAbsent(text, "*") => f.changes.key_changes = <<>>

\* C7 witness: a header without a Name line, a stray bullet and prose: one
\* FileChange with an empty name and every count at 0.
C7_Witness ==
    /\ parseInput.parser = "parse_text_response"
    /\ parseInput.arg = << <<"FILE SUMMARY">>, <<"-", " ">>, <<"words">> >>
    /\ parseOutput.done
    /\ Len(parseOutput.value.files) = 1
    /\ parseOutput.value.files[1].name = <<>>
    /\ parseOutput.value.files[1].changes.additions = 0

\* The value of a run of decimal digits, read from the left.
RECURSIVE C8_Decimal(_, _)
C8_Decimal(acc, s) ==
    IF s = <<>> THEN acc
    ELSE C8_Decimal(10 * acc + (CASE Head(s) = "1" -> 1 [] Head(s) = "2" -> 2
                                  [] Head(s) = "3" -> 3), Tail(s))

C8_Digits(s) == SelectSeq(s, LAMBDA c : c \in {"1", "2", "3"})
C8_Kept(s) == SelectSeq(s, LAMBDA c : c \in {"1", "2", "3", "sup2", "-"})

\* C8 as stated: safe_int_convert keeps the digits and an optional leading minus
\* sign: the result is the number the digits of the input spell, negated when
\* the first character kept is a minus sign, and 0 when the input has no digit.
C8_LeadingMinusOnly ==
    (parseInput.parser = "safe_int_convert" /\ parseOutput.done
        /\ "sup2" \notin Range(parseInput.arg))
    => LET s == parseInput.arg
           digits == C8_Digits(s)
           kept == C8_Kept(s)
       IN  parseOutput.value =
             IF digits = <<>> THEN 0
             ELSE IF kept[1] = "-" THEN 0 - C8_Decimal(0, digits)
             ELSE C8_Decimal(0, digits)

\* C8 as amended: safe_int_convert keeps the digits and every minus sign and
\* never raises; it returns the number kept when that is one or more decimal
\* digits after at most one minus sign, which must come first, and 0 otherwise
\* (nothing kept, a minus sign after a digit, several minus signs, a digit
\* character that int() rejects): "12 lines" gives 12, "none" 0, "-3" -3.
C8_KeepsEveryMinus ==
    (parseInput.parser = "safe_int_convert" /\ parseOutput.done)
    => LET s == parseInput.arg
           kept == C8_Kept(s)
           r == parseOutput.value
           plain == kept # <<>> /\ \A i \in DOMAIN kept : kept[i] \in {"1", "2", "3"}
           signed == /\ Len(kept) >= 2
                     /\ kept[1] = "-"
                     /\ \A i \in 2..Len(kept) : kept[i] \in {"1", "2", "3"}
       IN  /\ r \in Int
           /\ plain => r = C8_Decimal(0, kept)
           /\ signed => r = 0 - C8_Decimal(0, Tail(kept))
           /\ (~plain /\ ~signed) => r = 0
           /\ s = <<"1", "2", " ", "lines">> => r = 12
           /\ s = <<"none">> => r = 0
           /\ s = <<"-", "3">> => r = 0 - 3

\* C8 witness: "-3" has been converted to -3.
C8_Witness ==
    /\ parseInput.parser = "safe_int_convert"
    /\ parseInput.arg = <<"-", "3">>
    /\ parseOutput.done
    /\ parseOutput.value = 0 - 3

\* C9: every FileChange, from parse_text_response or from parse_single_file_diff,
\* has additions >= 0 and deletions >= 0.
C9_CountsNonNegative ==
    /\ (parseInput.parser = "parse_text_response" /\ parseOutput.done)
       => \A k \in DOMAIN parseOutput.value.files :
            /\ parseOutput.value.files[k].changes.additions >= 0
            /\ parseOutput.value.files[k].changes.deletions >= 0
    /\ (parseInput.parser = "parse_single_file_diff" /\ parseOutput.done)
       => /\ parseOutput.value.changes.additions >= 0
          /\ parseOutput.value.changes.deletions >= 0

RECURSIVE Flatten(_)
Flatten(groups) ==
    IF groups = <<>> THEN <<>> ELSE Head(groups).commits \o Flatten(Tail(groups))

\* C10: grouping by "{type}/{scope}" and sorting each group on original_index
\* yields a partition: the groups, concatenated in iteration order, hold every
\* analysed commit exactly once, each in the group named by its type and scope.
C10_GroupingIsPartition ==
    rpc = "done"
    => LET flat == Flatten(grouped_commits) IN
       /\ Len(flat) = Len(parsed_commits)
       /\ \A i \in DOMAIN parsed_commits :
            Cardinality({j \in DOMAIN flat : flat[j].commit = parsed_commits[i].commit}) = 1
       /\ \A g \in DOMAIN grouped_commits :
            \A j \in DOMAIN grouped_commits[g].commits :
                LET c == grouped_commits[g].commits[j] IN
                /\ grouped_commits[g].key = c.type \o "/" \o c.scope
                /\ \E i \in DOMAIN parsed_commits :
                     /\ parsed_commits[i].commit = c.commit
                     /\ parsed_commits[i].type = c.type
                     /\ parsed_commits[i].scope = c.scope
       /\ \A g, h \in DOMAIN grouped_commits :
            g # h => grouped_commits[g].key # grouped_commits[h].key

\* C10 witness: three commits in two groups, one of which holds two commits whose
\* type and scope differ but whose keys coincide.
C10_Witness ==
    /\ rpc = "done"
    /\ Len(parsed_commits) = 3
    /\ Len(grouped_commits) = 2
    /\ \E g \in DOMAIN grouped_commits :
         \E a, b \in DOMAIN grouped_commits[g].commits :
            grouped_commits[g].commits[a].type # grouped_commits[g].commits[b].type

\* C11: whatever the completion order of the analyses, the original_index of
\* an analysed commit is the position of its commit in the oldest-first list
\* fixed before dispatch, and every group lists its commits oldest first.
C11_OriginalIndexChronological ==
    rpc = "done"
    => \A g \in DOMAIN grouped_commits :
         LET cs == grouped_commits[g].commits IN
         /\ \A j \in DOMAIN cs : cs[j].original_index = cs[j].commit - 1
         /\ \A j, k \in DOMAIN cs : j < k => cs[j].commit < cs[k].commit

\* C17: for every list of commits and every pattern of failures, the parallel
\* analysis is never aborted and ends with exactly one entry per commit, the
\* entry of a failed analysis being unknown / unknown / LOW.
C17_OneAnalysisPerCommit ==
    /\ rpc # "aborted"
    /\ rpc \in {"group", "done"}
       => /\ Len(parsed_commits) = new_commits
          /\ \A p \in 1..new_commits :
               Cardinality({i \in DOMAIN parsed_commits : parsed_commits[i].commit = p}) = 1
    /\ \A i \in DOMAIN parsed_commits :
         parsed_commits[i].summary \in {"Error analyzing commit", "Error processing commit"}
         => /\ parsed_commits[i].type = "unknown"
            /\ parsed_commits[i].scope = "unknown"
            /\ parsed_commits[i].impact = "LOW"

Assembled ==
    /\ cpc \in {"commit", "push", "save_log", "returned"}
    /\ "Using manual commit message fallback..." \notin Range(shown)

\* No commit message was given and both the title and the summary request failed.
C13_Case ==
    /\ Assembled
    /\ Strip(user_msg) = <<>>
    /\ future["title"].raised
    /\ future["summary"].raised

C13_NoTitleWitness ==
    /\ C13_Case
    /\ structured_diff.files = <<>>
    /\ final_commit_message[1] = <<"Summary:">>

\* What the loop of line 651 stores in the message for future t.
Placed(t) ==
    IF t = "title" THEN TitlePlaced(future[t].result) ELSE SummaryPlaced(future[t].result)

InMessage(t) == IF t = "title" THEN message.title ELSE message.summary

\* C15: the title call and the summary call run side by side; in every
\* interleaving the final message exists only after both have finished and been
\* consumed; what the message holds for each call is fixed by that call's own
\* result, whichever finished first and whether or not the other one failed.
C15_BothBeforeAssembly ==
    /\ final_commit_message # <<>> /\ future["title"].state # "none" =>
          \A t \in Futures : future[t].state = "consumed"
    /\ \A t \in Futures :
          IF future[t].state = "consumed"
          THEN InMessage(t) = Placed(t)
          ELSE InMessage(t) = <<>>
    /\ Assembled => final_commit_message = FinalMessage(message)

\* One call failed, the other answered: both results are in the final message.
C15_Witness ==
    /\ Assembled
    /\ future["title"].raised /\ ~future["summary"].raised
    /\ message.title = <<"f", "i", "x">>
    /\ message.summary = <<"Adds a parser.">>
    /\ final_commit_message[1] = message.title
    /\ final_commit_message[4] = message.summary

\* Either call can be consumed while the other is still running.
C15_SummaryFirst ==
    future["summary"].state = "consumed" /\ future["title"].state = "running"

C15_TitleFirst ==
    future["title"].state = "consumed" /\ future["summary"].state = "running"

ManualFallbackUsed == "Using manual commit message fallback..." \in Range(shown)

CommitPromptReached == \E i \in DOMAIN trace : trace[i].ev = "prompt" /\ trace[i].what = "commit"

\* C16: after an exception in the build of the structured diff or in the
\* assembly of the message, commit_msg has not raised; the final message is the
\* user's raw message ("Update files" when it is empty), a blank line,
\* "Files Changed:" and one bullet per non-blank line of the file-name string;
\* and the run stands at the commit confirmation prompt or has passed it.
C16_MinimalArtifact ==
    /\ cpc = "except" => exit_status = "running" /\ ~CommitPromptReached
    /\ ManualFallbackUsed =>
          /\ exit_status # "traceback"
          /\ Len(final_commit_message) = Len(name_only) + 4
          /\ final_commit_message[1] = (IF user_msg = <<>> THEN <<"Update ", "files">> ELSE user_msg)
          /\ final_commit_message[2] = <<>>
          /\ final_commit_message[3] = <<"Files Changed:">>
          /\ \A i \in DOMAIN name_only : final_commit_message[3 + i] = <<"- ">> \o name_only[i]
          /\ \/ cpc = "commit" /\ exit_status = "running"
             \/ CommitPromptReached

\* The exception came after both calls had answered; two files are listed.
C16_Witness ==
    /\ ManualFallbackUsed
    /\ cpc = "commit"
    /\ ~future["title"].raised /\ future["title"].state = "consumed"
    /\ final_commit_message =
          << <<"Update ", "files">>, <<>>, <<"Files Changed:">>,
             <<"- ", "src", "/", "f", "1", ".py">>, <<"- ", "f", "2", ".py">>, <<>> >>

InterruptedAt(prompt) ==
    \E i \in DOMAIN trace :
        trace[i].ev = "prompt" /\ trace[i].what = prompt /\ trace[i].answer = CtrlC

\* C18: once the user has interrupted at a prompt (commit message, use staged
\* files, file selection, commit confirmation, push confirmation), the process
\* has ended with status 0 and without a traceback, and the interrupt is the
\* last entry of the trace: no git commit and no git push follows it.
C18_InterruptExitsCleanly ==
    \A i \in DOMAIN trace :
        trace[i].answer = CtrlC =>
            /\ trace[i].what \in Prompts
            /\ i = Len(trace)
            /\ cpc = "exited"
            /\ exit_status = "exit 0"

\* The interrupt came at the push prompt, after a commit.
C18_Witness ==
    /\ InterruptedAt("push")
    /\ \E i \in DOMAIN trace : trace[i].ev = "git" /\ trace[i].what = "commit"
    /\ exit_status = "exit 0"

\* The entries of the trace before position i that are ev events.
Before(i, ev) == {j \in 1..(i - 1) : trace[j].ev = ev}

\* A worker pool is open at position i of the trace.
PoolRunningAt(i) == Cardinality(Before(i, "pool_open")) > Cardinality(Before(i, "pool_close"))

IsGit(i, cmds) == trace[i].ev = "git" /\ trace[i].what \in cmds

Affirmative(i, prompt) ==
    trace[i].ev = "prompt" /\ trace[i].what = prompt /\ trace[i].answer \in {"", "y"}

\* C19: in one run git commit is invoked at most once, right after the user's
\* affirmative answer to the commit prompt and with every worker pool closed;
\* git add is never invoked while a worker pool is open; git push is invoked
\* only after the commit and after a further affirmative answer.
C19_GitStepsSerialized ==
    /\ Cardinality({i \in DOMAIN trace : IsGit(i, {"commit"})}) <= 1
    /\ \A i \in DOMAIN trace :
          /\ IsGit(i, {"commit"}) =>
                /\ i > 1 /\ Affirmative(i - 1, "commit")
                /\ ~PoolRunningAt(i)
                /\ \A j \in DOMAIN trace : trace[j].ev \in {"pool_open", "pool_close"} => j < i
          /\ IsGit(i, {"add"}) => ~PoolRunningAt(i)
          /\ IsGit(i, {"push", "push --set-upstream"}) =>
                \E c \in 1..(i - 1) :
                    /\ IsGit(c, {"commit"})
                    /\ \E a \in (c + 1)..(i - 1) : Affirmative(a, "push")

\* A run that staged a file, went through both pools, committed and pushed.
C19_Witness ==
    /\ cpc = "returned"
    /\ \E i \in DOMAIN trace : IsGit(i, {"add"})
    /\ \E i \in DOMAIN trace : trace[i].ev = "pool_close" /\ trace[i].what = "files"
    /\ \E i \in DOMAIN trace : trace[i].ev = "pool_close" /\ trace[i].what = "title_summary"
    /\ \E i \in DOMAIN trace : IsGit(i, {"commit"}) /\ trace[i].ok
    /\ \E i \in DOMAIN trace : IsGit(i, {"push"}) /\ trace[i].ok

Failed(i, cmds) == IsGit(i, cmds) /\ ~trace[i].ok

\* After a failed git commit, "Changes committed." is not shown.
NoSuccessAfterFailedCommit ==
    (\E i \in DOMAIN trace : Failed(i, {"commit"})) => "Changes committed." \notin Range(shown)

\* A rejected push is reported, "Changes pushed." is not shown for it.
FailedPushReported ==
    (\E i \in DOMAIN trace : Failed(i, {"push --set-upstream"})) =>
        "Failed to push changes" \in Range(shown) /\ "Changes pushed." \notin Range(shown)

\* No git command follows a failed one.
FailedOperationNotRetried ==
    \A i \in DOMAIN trace :
        Failed(i, {"commit", "push", "push --set-upstream"}) =>
            \A j \in DOMAIN trace : j > i => trace[j].ev # "git"

\* The message in memory is the one that was built.
MessageUnchanged ==
    cpc \in {"push", "save_log", "returned"} =>
        final_commit_message = (IF ManualFallbackUsed
                                THEN MinimalMessage(user_msg, name_only)
                                ELSE FinalMessage(message))

\* C20: when git commit or git push fails, the failure is reported and no
\* success message is shown for the failed operation, the failed operation is
\* not retried, and the commit message in memory is unchanged.
C20_GitFailureReported ==
    /\ NoSuccessAfterFailedCommit
    /\ FailedPushReported
    /\ FailedOperationNotRetried
    /\ MessageUnchanged

\* C21: get_response has no effect beyond the provider call: after a reply it
\* returns the trimmed text, and after a failure of the provider it raises that
\* failure to its caller, having printed nothing, asked nothing on standard
\* input, and sent no second request.
C21_NoSideEffect ==
    /\ console = <<>>
    /\ retry = <<>>
    /\ Len(provider_calls) <= 1
    /\ apc = "done" =>
          IF primary_error = ""
          THEN client_result.kind = "returned" => client_result.value = <<"reply">>
          ELSE client_result.kind = "raised" /\ client_result.error = primary_error

SecondaryCalls == {i \in DOMAIN provider_calls : provider_calls[i].provider = "openai"}

SaidYes == retry # <<>> /\ Strip(LowerAnswer(retry[1])) = <<"y">>

\* C22: after a failure of the primary provider the secondary provider is
\* called at most once, and only after the answer "y" to the fallback prompt;
\* its model is the tier of the configured model (haiku: small, sonnet: medium,
\* any other: large) and its trimmed reply is what get_response returns; after
\* any other answer the primary provider's error is raised again and the
\* secondary provider is not called.
C22_SecondaryAfterConsent ==
    /\ Cardinality(SecondaryCalls) <= 1
    /\ \A i \in SecondaryCalls :
          /\ i = 2 /\ primary_error # "" /\ SaidYes
          /\ provider_calls[i].model =
                (IF \E k \in DOMAIN self_model : self_model[k] = "haiku" THEN <<"small">>
                 ELSE IF \E k \in DOMAIN self_model : self_model[k] = "sonnet"
                      THEN <<"medium">> ELSE <<"large">>)
          /\ apc = "done" /\ client_result.kind = "returned" => client_result.value = <<"reply">>
    /\ apc \in {"secondary", "done"} /\ retry # <<>> /\ ~SaidYes /\ retry[1] # <<"KeyboardInterrupt">> =>
          /\ SecondaryCalls = {}
          /\ client_result = [kind |-> "raised", value |-> <<>>, error |-> primary_error]

\* "Y" was typed after an overloaded primary; the medium model answered.
C22_Witness ==
    /\ apc = "done"
    /\ primary_error = "overloaded_error"
    /\ retry = << <<"Y">> >>
    /\ Len(provider_calls) = 2
    /\ provider_calls[2] = [provider |-> "openai", model |-> <<"medium">>]
    /\ client_result = [kind |-> "returned", value |-> <<"reply">>, error |-> ""]

C22_Refused ==
    /\ apc = "done"
    /\ retry = << <<"yes">> >>
    /\ client_result.kind = "raised"
    /\ Len(provider_calls) = 1

\* C23: in the parallel path a file whose request failed still gets an entry
\* (the build goes on), with change_type "modify", summary "Modified <name>",
\* no additions and no deletions, and the text of the error as a key change.
C23_ErrorRecorded ==
    /\ dpc = "done" /\ structured.by = "parse_large_diff" =>
          \A f \in failing \cap (1..diff.files) :
              \E i \in DOMAIN structured.files : structured.files[i].name = f
    /\ \A i \in DOMAIN file_results :
          file_results[i].name \in failing =>
              /\ file_results[i].change_type = <<"modify">>
              /\ file_results[i].summary = <<"Modified ", file_results[i].name>>
              /\ file_results[i].changes.additions = 0
              /\ file_results[i].changes.deletions = 0
              /\ \E k \in DOMAIN file_results[i].changes.key_changes :
                    file_results[i].changes.key_changes[k][1] = "Error processing: "

\* C24: whenever the summary request failed, overloaded or not, what
\* generate_summary gave back is the sentence "Updated <files> files with
\* <additions> additions and <deletions> deletions." with the counts of the
\* StructuredDiff.
C24_TemplatedSummary ==
    future["summary"].state \in {"done", "consumed"} /\ future["summary"].raised =>
        future["summary"].result =
            <<"Updated ", ToString(Len(structured_diff.files)), " files with ",
              ToString(structured_diff.overall_stats.total_additions), " additions and ",
              ToString(structured_diff.overall_stats.total_deletions), " deletions.">>

\* C25: for every phrase P of the list of generate_title and every reply that
\* is P followed by a title text T without any phrase of the list,
\* generate_title returns exactly T.
C25_PhraseStripped ==
    parseInput.parser = "generate_title" /\ parseOutput.done =>
        parseOutput.value = parseInput.arg.text

\* The phrases that are removed whole.
C25_WholePhrases ==
    parseInput.parser = "generate_title" /\ parseOutput.done
        /\ parseInput.arg.phrase \notin {4, 5, 6, 11} =>
            parseOutput.value = parseInput.arg.text

\* "Commit Title: Fix" comes back as "Commit  Fix".
C25_LeftOver ==
    /\ parseInput.parser = "generate_title" /\ parseOutput.done
    /\ parseInput.arg.reply = <<"Commit", " ", "Title:", " ", "Fix">>
    /\ parseOutput.value = <<"Commit", " ", " ", "Fix">>

FieldLabels ==
    {"Name:", "Type:", "Summary:", "Lines Added:", "Lines Deleted:", "Modified Functions:"}
StatLabels ==
    {"Total Files Changed:", "Total Additions:", "Total Deletions:",
     "Modified:", "Added:", "Deleted:"}

\* A line without its indentation and bullet.
Unbulleted(line) == Strip(LStrip(line, {" ", "-", "*"}))

\* The same labelled line behind another bullet; other lines are left alone.
Rebullet(line, bullet) ==
    IF Unbulleted(line) # <<>> /\ Unbulleted(line)[1] \in FieldLabels \cup StatLabels
    THEN bullet \o Unbulleted(line)
    ELSE line

Rebulleted(text, bullet) == [i \in DOMAIN text |-> Rebullet(text[i], bullet)]

\* C26: parse_text_response gives the same result whatever bullet (none, "-"
\* or "*") and indentation stands before the label of a per-file field line
\* or of a statistics line, the "* Modified:", "* Added:", "* Deleted:" lines
\* of the requested format included.
C26_BulletIndependent ==
    parseInput.parser = "parse_text_response" /\ parseOutput.done =>
        \A bullet \in {<<"-", " ">>, <<" ", " ", "*", " ">>, <<" ", " ">>} :
            parse_text_response(Rebulleted(parseInput.arg, bullet))
                = parse_text_response(Rebulleted(parseInput.arg, <<>>))

\* The part that holds: no bullet, "-" and indentation are the same.
C26_DashOrNone ==
    parseInput.parser = "parse_text_response" /\ parseOutput.done =>
        \A bullet \in {<<"-", " ">>, <<" ", " ">>, <<" ", "-", " ", " ">>} :
            parse_text_response(Rebulleted(parseInput.arg, bullet))
                = parse_text_response(Rebulleted(parseInput.arg, <<>>))

\* "  * Modified: 1" after the statistics header leaves change_types unset.
C26_StarLineIgnored ==
    /\ parseInput.parser = "parse_text_response" /\ parseOutput.done
    /\ parseInput.arg = << <<"OVERALL STATISTICS">>, <<" ", " ", "*", " ", "Modified:", " ", "1">> >>
    /\ parseOutput.value.overall_stats.change_types.modify = 0

\* "Modified Functions: none" leaves functions_modified empty.
C26_NoneIsEmpty ==
    parseInput.parser = "parse_text_response" /\ parseOutput.done
        /\ Len(parseInput.arg) = 2
        /\ parseInput.arg[1] = <<"Name:", " ", "b">>
        /\ parseInput.arg[2] = <<"-", " ", "Modified Functions:", " ", "None">> =>
            /\ Len(parseOutput.value.files) = 1
            /\ parseOutput.value.files[1].changes.functions_modified = <<>>

\* A section: nothing when its content is empty, else its lines.
Section(content, lines) == IF content # <<>> THEN lines ELSE <<>>

\* C27: the final message is the title, "Summary:", "Details:" and
\* "Files Changed:" sections in this order, each present exactly when its
\* content is not empty; title, summary and details are each followed by one
\* blank line; the lines of format_structured_diff stand in Details as they
\* are, without "- "; Files Changed has one "- <name>" line per file.
C27_Sections ==
    Assembled =>
        /\ message.details = format_structured_diff(structured_diff)
        /\ message.files_changed = structured_diff.files
        /\ final_commit_message =
              Section(message.title, <<message.title, <<>> >>)
              \o Section(message.summary, << <<"Summary:">>, message.summary, <<>> >>)
              \o Section(message.details, << <<"Details:">> >> \o message.details \o << <<>> >>)
              \o Section(message.files_changed,
                         << <<"Files Changed:">> >>
                         \o [i \in DOMAIN message.files_changed |->
                                <<"- ">> \o message.files_changed[i].name])

\* All four sections, for one file.
C27_Witness ==
    /\ Assembled
    /\ final_commit_message =
          << <<"Add", " ", "parser">>, <<>>,
             <<"Summary:">>, <<"Adds a parser.">>, <<>>,
             <<"Details:">>,
             <<"src", "/", "f", "1", ".py", ":">>,
             <<"  ", "Summary: ", "Modified ", "py", " file">>,
             <<"  ", "Key changes:">>,
             <<"  ", "  - ", "Updated ", "src", "/", "f", "1", ".py">>,
             <<>>,
             <<"Files Changed:">>,
             <<"- ", "src", "/", "f", "1", ".py">> >>

\* No title and no summary: the message begins with "Details:".
C27_DetailsFirst ==
    /\ Assembled
    /\ message.title = <<>> /\ message.summary = <<>>
    /\ final_commit_message # <<>>
    /\ final_commit_message[1] = <<"Details:">>

\* No file: the summary section alone.
C27_SummaryAlone ==
    /\ Assembled
    /\ final_commit_message = << <<"Summary:">>, <<"Adds a parser.">>, <<>> >>

\* ---- C28 ----
CeilDiv(n, b) == CHOOSE k \in 0..n : k * b >= n /\ (k - 1) * b < n
ExpectedBatches == IF batch_size_arg > 0 THEN CeilDiv(new_commits, batch_size_arg) ELSE 1
ExpectedBatch(p) == IF batch_size_arg > 0 THEN (p - 1) \div batch_size_arg ELSE 0
Submitted(p) == p \in 1..new_commits /\ task[p] # "new"
Started(p) == p \in 1..new_commits /\ task[p] \in {"running", "finished", "consumed"}
Completed(p) == p \in 1..new_commits /\ task[p] \in {"finished", "consumed"}

\* C28: with batch size b > 0 the chronologically sorted commits are handled in
\* ceil(n / b) consecutive batches of at most b commits, each commit in exactly
\* one batch; a batch runs in parallel inside but batches run one after another,
\* so no analysis of a later batch starts before every analysis of an earlier
\* batch has completed; with b = 0 all commits form one batch.
C28_SequentialBatches ==
    rpc # "off" =>
        /\ \A p \in 1..new_commits :
              /\ ExpectedBatch(p) \in 0..(ExpectedBatches - 1)
              /\ Submitted(p) => ExpectedBatch(p) <= batch_idx
              /\ (rpc = "collect" /\ ExpectedBatch(p) = batch_idx) => Submitted(p)
        /\ \A p, q \in 1..new_commits :
              (ExpectedBatch(p) < ExpectedBatch(q) /\ Started(q)) => Completed(p)
        /\ \A j \in 0..(ExpectedBatches - 1) :
              LET members == {p \in 1..new_commits : ExpectedBatch(p) = j}
              IN  /\ members # {}
                  /\ batch_size_arg > 0 => Cardinality(members) <= batch_size_arg
                  /\ \A p, q \in members : \A r \in p..q : r \in members
        /\ batch_idx <= ExpectedBatches
        /\ rpc \in {"group", "done"} =>
              /\ batch_idx = ExpectedBatches
              /\ \A p \in 1..new_commits : task[p] = "consumed"
        /\ batch_size_arg = 0 => \A p \in 1..new_commits : ExpectedBatch(p) = 0

\* the second batch is being analysed after the whole first batch completed
C28_Witness ==
    /\ rpc = "collect"
    /\ batch_size_arg = 2
    /\ new_commits = 3
    /\ batch_idx = 1
    /\ task[3] = "running"
    /\ task[1] = "consumed"
    /\ task[2] = "consumed"

\* two analyses of one batch run at the same time
C28_ParallelInside ==
    \E p, q \in 1..new_commits :
        /\ p # q
        /\ ExpectedBatch(p) = ExpectedBatch(q)
        /\ task[p] = "running"
        /\ task[q] = "running"

\* batch size 0: every commit is submitted in the only batch
C28_ZeroIsOneBatch ==
    /\ batch_size_arg = 0
    /\ new_commits = 3
    /\ rpc = "collect"
    /\ batch_idx = 0
    /\ \A p \in 1..new_commits : Submitted(p)

\* ---- C29 ----
BatchFiles(c) == {f \in 1..diff.files : ChunkOf(f, diff.files) = c}
Batches == 1..NumChunks(diff.files)
InParallelPath == dpc = "chunks" /\ diff.files >= 1

\* C29: for every number n >= 1 of files split out of a large diff the files
\* are grouped into balanced batches: every file is in exactly one batch, no
\* batch is empty, there are at most 5 batches (exactly 5 when n >= 5), and any
\* two batch sizes differ by at most one file; the batch in progress is one of
\* them.
C29_BalancedBatches ==
    InParallelPath =>
        /\ \A f \in 1..diff.files : ChunkOf(f, diff.files) \in Batches
        /\ \A c \in Batches : BatchFiles(c) # {}
        /\ chunk_idx \in Batches
        /\ NumChunks(diff.files) <= 5
        /\ diff.files >= 5 => NumChunks(diff.files) = 5
        /\ \A c, d \in Batches :
              Cardinality(BatchFiles(c)) <= Cardinality(BatchFiles(d)) + 1

\* the part that holds: the batches partition the files and none is empty
C29_Partition ==
    InParallelPath =>
        /\ \A f \in 1..diff.files : ChunkOf(f, diff.files) \in Batches
        /\ \A c \in Batches : BatchFiles(c) # {}
        /\ chunk_idx \in Batches

\* six files are processed in six batches of one file
C29_SixBatches ==
    /\ InParallelPath
    /\ diff.files = 6
    /\ chunk_idx = 6
    /\ Cardinality(BatchFiles(6)) = 1

\* eleven files: five batches of two files and a sixth batch of one
C29_ElevenFiles ==
    /\ InParallelPath
    /\ diff.files = 11
    /\ chunk_idx = 6
    /\ Cardinality(BatchFiles(1)) = 2
    /\ Cardinality(BatchFiles(6)) = 1

\* ---- C30 ----
RECURSIVE SumCounts(_, _)
SumCounts(counts, keys) ==
    IF keys = {} THEN 0
    ELSE LET k == CHOOSE x \in keys : TRUE
         IN  counts[k] + SumCounts(counts, keys \ {k})

RECURSIVE SumField(_, _, _)
SumField(files, field, i) ==
    IF i > Len(files) THEN 0
    ELSE files[i].changes[field] + SumField(files, field, i + 1)

StructureBuilt ==
    /\ parseInput.parser \in {"create_fallback_structure", "parse_large_diff"}
    /\ parseOutput.done

\* C30: every StructuredDiff computed by create_fallback_structure (for any
\* string of names, with empty or blank lines) or by the combination of
\* parse_large_diff (for any per-file results and any change_type text) has
\* total_files equal to the number of files, change_types counts that sum to
\* total_files, and total_additions and total_deletions equal to the sums of
\* the files' additions and deletions.
C30_StatsConsistent ==
    StructureBuilt =>
        LET sd == parseOutput.value
            stats == sd.overall_stats
        IN  /\ stats.total_files = Len(sd.files)
            /\ SumCounts(stats.change_types, DOMAIN stats.change_types) = stats.total_files
            /\ stats.total_additions = SumField(sd.files, "additions", 1)
            /\ stats.total_deletions = SumField(sd.files, "deletions", 1)

\* per-file results with a change type outside modify/add/delete were combined
C30_Witness ==
    /\ parseInput.parser = "parse_large_diff"
    /\ parseOutput.done
    /\ Len(parseOutput.value.files) = 3
    /\ parseOutput.value.files[1].change_type = <<"renamed">>
    /\ parseOutput.value.files[2].change_type = <<"add">>
    /\ parseOutput.value.files[3].change_type = <<>>
    /\ parseOutput.value.overall_stats.total_additions = 14

\* the fallback dropped a blank line and an empty line of the name string
C30_BlankLinesDropped ==
    /\ parseInput.parser = "create_fallback_structure"
    /\ parseOutput.done
    /\ parseInput.arg.lines = <<FileName(1), <<" ">>, <<>>>>
    /\ Len(parseOutput.value.files) = 1
    /\ parseOutput.value.overall_stats.total_files = 1

====
